---- MODULE Spec2Model ----
(***************************************************************************)
(* LightTrack-PRO: sensor decoder (sensor_manager), motion tracker and     *)
(* beam renderer (led_controller.cpp) and the configuration store          *)
(* (storage) of the modular firmware, as a state machine.                  *)
(***************************************************************************)
EXTENDS Integers, Sequences, FiniteSets, TLC

(***************************************************************************)
(* Program constants (config.h values, as set in LightTrack-PRO.ino).      *)
(***************************************************************************)
NUM_LEDS == 300
SENSOR_HEADER == 170
MIN_DISTANCE == 20
MAX_DISTANCE == 1000
DEFAULT_DISTANCE == 1000
NOISE_THRESHOLD == 5

(***************************************************************************)
(* Bounds of the model.                                                    *)
(***************************************************************************)
\* capacity of the Serial1 receive buffer that the model explores, in bytes
MaxRx == 7
\* latest millis() value the model explores
MaxMillis == 1600

\* byte values the sensor line delivers one at a time (SpecSensor)
Bytes == {0, SENSOR_HEADER, 232}
\* distances carried by the well-formed frames the sensor sends (Spec)
Distances == {994, 997, 1000}
\* milliseconds that elapse between two readings of millis() by ledTask
TimeSteps == {500, 501}

(***************************************************************************)
(* State.                                                                  *)
(***************************************************************************)
VARIABLES
  rxBuf,                 \* Serial1 receive buffer: bytes not yet read
  g_sensorDistance,      \* sensor_manager: published distance
  sensorPc,              \* sensorTask: "read" (about to iterate) or "delay"
  lastRead,              \* history: how the latest readSensorData() returned
  ledPc,                 \* ledTask: "start" (prologue not run) or "loop"
  lastSensorDistance,    \* ledTask local
  lastMovementDirection, \* ledTask local
  lastMovementTime,      \* ledTask local
  showMovingEffect,      \* ledTask local, value of the latest iteration
  now,                   \* millis()
  leds,                  \* CRGB leds[NUM_LEDS]
  shown,                 \* pixel data last pushed to the strip by FastLED
  showCalled,            \* whether the latest ledTask iteration pushed
  lightOn,               \* storage: lightOn
  backgroundModeActive,  \* storage: backgroundModeActive
  baseColor,             \* storage: baseColor, <<r, g, b>>
  movingIntensity,       \* storage: movingIntensity, in thousandths
  stationaryIntensity,   \* storage: stationaryIntensity, in thousandths
  movingLength,          \* storage: movingLength
  centerShift,           \* storage: centerShift
  additionalLEDs,        \* storage: additionalLEDs
  ledOffDelay,           \* storage: ledOffDelay, seconds
  updateInterval,        \* storage: updateInterval, ms
  anchorDistance,        \* history: distance read when the tracker last changed
  twinLeds,              \* SpecFrame: pixel buffer of the second frame,
                         \* empty where no second frame is rendered
  startHour,             \* storage: startHour
  startMinute,           \* storage: startMinute
  endHour,               \* storage: endHour
  endMinute,             \* storage: endMinute
  eeprom,                \* EEPROM: the settings record last committed
  smarthomeOverride,     \* home_assistant: smarthomeOverride
  lastCall,              \* history: the store setter called last
  storeCalls,            \* history: number of store setter calls so far
  frame,                 \* SpecRace: locals of the ledTask iteration in
                         \* progress, [pc |-> "none"] elsewhere
  nowSec,                \* the system clock, time(nullptr), in seconds
  evalParity,            \* history: parity of the number of schedule
                         \* evaluations so far
  lastMsg,               \* history: the "state" value of the MQTT message
                         \* processed last and the parity of their number
  txRest,                \* sensor: bytes of the frame it is sending that
                         \* are not on the line yet
  burst,                 \* sensor line: "none", "on" while bytes are being
                         \* corrupted, "over" afterwards
  lastSave,              \* history: "saved" when the store setter called
                         \* last ran saveEepromSettings(), "skipped" when
                         \* it returned before, "none" before any call
  mqtt,                  \* the MQTT client of home_assistant.cpp and the
                         \* history of what its handlers did
  timeCall               \* history: parity of the /setTime requests served
                         \* and whether the latest one set the clock

sensorVars == <<rxBuf, g_sensorDistance, sensorPc, lastRead>>
trackVars == <<ledPc, lastSensorDistance, lastMovementDirection,
               lastMovementTime, showMovingEffect, now, anchorDistance>>
pixelVars == <<leds, shown, showCalled>>
stateVars == <<lightOn, backgroundModeActive>>
paramVars == <<baseColor, movingIntensity, stationaryIntensity, movingLength,
               centerShift, additionalLEDs, ledOffDelay, updateInterval>>
schedVars == <<startHour, startMinute, endHour, endMinute>>
envVars == <<nowSec, evalParity, lastMsg, txRest, burst, lastSave, mqtt,
             timeCall>>
planeVars == <<schedVars, eeprom, smarthomeOverride, lastCall, storeCalls,
               envVars>>
vars == <<sensorVars, trackVars, pixelVars, stateVars, paramVars, twinLeds,
          planeVars, frame>>

(***************************************************************************)
(* Arduino helpers.                                                        *)
(***************************************************************************)
Abs(x) == IF x < 0 THEN -x ELSE x
Min(a, b) == IF a < b THEN a ELSE b
Constrain(x, lo, hi) == IF x < lo THEN lo ELSE IF x > hi THEN hi ELSE x
\* C integer division: truncation towards zero
TruncDiv(a, b) == IF a >= 0 THEN a \div b ELSE -((-a) \div b)

(***************************************************************************)
(* Sensor decoder (sensor_manager.cpp).                                    *)
(***************************************************************************)
InRange(d) == d >= MIN_DISTANCE /\ d <= MAX_DISTANCE

\* reading that leaves the last byte read in the buffer
DropShort(s, n) == SubSeq(s, n, Len(s))
\* the buffer after n bytes were read from it
Drop(s, n) == SubSeq(s, n + 1, Len(s))

\* the distance taken from the first two payload bytes
PayloadDistanceFirstTwo(buf) == buf[2] * 256 + buf[1]
\* the distance with the two bytes in the other order
PayloadDistanceHighFirst(buf) == buf[2] * 256 + buf[3]
\* distance = (buf[2] << 8) | buf[1]; buf holds the 5 payload bytes and is
\* indexed from 1 here, so C's buf[1] is buf[2] and C's buf[2] is buf[3]
PayloadDistance(buf) == buf[3] * 256 + buf[2]

\* the range check of readSensorData
RejectDistance(distance) == distance < MIN_DISTANCE \/ distance > MAX_DISTANCE

\* bytes left in the receive buffer after a header mismatch:
\* while (Serial1.available()) Serial1.read();
KeepRest(rest) == rest
FlushRx(rest) == << >>

\* the value returned when no distance is accepted
ReturnDefault(last) == DEFAULT_DISTANCE
ReturnLast(last) == last

\* the availability test asking for the two header bytes only
EnoughBytesForHeader(available) == available >= 2
\* Serial1.available() < requiredBytes is false: a whole frame is buffered
EnoughBytes(available) == available >= 7

\* readSensorData(): ret is the returned distance, rx the receive buffer it
\* leaves, how the return statement taken
readSensorData(rx, last) ==
  IF ~EnoughBytes(Len(rx))
  THEN [ret |-> ReturnLast(last), rx |-> rx, how |-> "short"]
  ELSE IF rx[1] # SENSOR_HEADER
       THEN [ret |-> ReturnLast(last), rx |-> FlushRx(Drop(rx, 1)),
             how |-> "sync1"]
  ELSE IF rx[2] # SENSOR_HEADER
       THEN [ret |-> ReturnLast(last), rx |-> FlushRx(Drop(rx, 2)),
             how |-> "sync2"]
  ELSE IF Len(rx) < 7
       THEN \* readBytes got fewer than 5 bytes: they are consumed, no flush
            [ret |-> ReturnLast(last), rx |-> << >>, how |-> "incomplete"]
  ELSE LET buf == SubSeq(rx, 3, 7)
           distance == PayloadDistance(buf)
       IN  IF RejectDistance(distance)
           THEN [ret |-> ReturnLast(last), rx |-> Drop(rx, 7),
                 how |-> "rejected"]
           ELSE [ret |-> distance, rx |-> Drop(rx, 7), how |-> "accepted"]

\* one iteration of sensorTask up to its vTaskDelay
SensorTask ==
  /\ sensorPc = "read"
  /\ LET r == readSensorData(rxBuf, g_sensorDistance)
     IN  /\ rxBuf' = r.rx
         /\ g_sensorDistance' = IF InRange(r.ret) THEN r.ret ELSE g_sensorDistance
         /\ lastRead' = r.how
  /\ sensorPc' = "delay"
  /\ UNCHANGED <<trackVars, pixelVars, stateVars, paramVars, twinLeds,
               planeVars, frame>>

\* vTaskDelay(5) of sensorTask expires
SensorWake ==
  /\ sensorPc = "delay"
  /\ sensorPc' = "read"
  /\ UNCHANGED <<rxBuf, g_sensorDistance, lastRead>>
  /\ UNCHANGED <<trackVars, pixelVars, stateVars, paramVars, twinLeds,
               planeVars, frame>>

\* the UART receives one byte
SerialReceiveByte(b) ==
  /\ Len(rxBuf) < MaxRx
  /\ rxBuf' = Append(rxBuf, b)
  /\ UNCHANGED <<g_sensorDistance, sensorPc, lastRead>>
  /\ UNCHANGED <<trackVars, pixelVars, stateVars, paramVars, twinLeds,
               planeVars, frame>>

\* the 7 bytes of a well-formed frame carrying distance d
Frame(d) == <<SENSOR_HEADER, SENSOR_HEADER, 0, d % 256, d \div 256, 0, 0>>

\* the UART receives a whole frame while the buffer is empty
SerialReceiveFrame(d) ==
  /\ rxBuf = << >>
  /\ Len(Frame(d)) <= MaxRx
  /\ rxBuf' = Frame(d)
  /\ UNCHANGED <<g_sensorDistance, sensorPc, lastRead>>
  /\ UNCHANGED <<trackVars, pixelVars, stateVars, paramVars, twinLeds,
               planeVars, frame>>

(***************************************************************************)
(* Pixel arithmetic (FastLED CRGB as used by led_controller.cpp).          *)
(***************************************************************************)
Black == <<0, 0, 0>>
Pixels == 0 .. (NUM_LEDS - 1)
AllBlack == [i \in Pixels |-> Black]

\* float to uint8_t conversion of num/den (truncation), num/den in [0, 256)
FloatToU8(num, den) == num \div den
\* scale8 of one channel by a fract8
Scale8(c, scale) == (c * (1 + scale)) \div 256
\* CRGB::scale8(fract8)
ScaleRGB(color, scale) ==
  <<Scale8(color[1], scale), Scale8(color[2], scale), Scale8(color[3], scale)>>
\* 8-bit addition that wraps
WrapAdd8(a, b) == (a + b) % 256
\* qadd8: saturating 8-bit addition
QAdd8(a, b) == IF a + b > 255 THEN 255 ELSE a + b
\* CRGB::operator+=
AddRGB(p, q) == <<QAdd8(p[1], q[1]), QAdd8(p[2], q[2]), QAdd8(p[3], q[3])>>

\* fadeToBlackBy(leds, NUM_LEDS, 40) in place of the hard clear
FadeOrFill(buf, color) ==
  [i \in DOMAIN buf |-> IF color = Black THEN ScaleRGB(buf[i], 215) ELSE color]
\* fill_solid(leds, NUM_LEDS, color)
FillSolid(buf, color) == [i \in DOMAIN buf |-> color]

(***************************************************************************)
(* Beam renderer: the light-on part of one ledTask iteration.              *)
(***************************************************************************)
\* isBackgroundModeActive() && bgIntensity > 0.0f
BackgroundOn == backgroundModeActive /\ stationaryIntensity > 0

\* the background scaled by the intensity of the beam
BackgroundColorFromMoving ==
  ScaleRGB(baseColor, FloatToU8(movingIntensity * 255, 1000))
\* baseBgColor.scale8(bgIntensity * 255.0f)
BackgroundColor ==
  ScaleRGB(baseColor, FloatToU8(stationaryIntensity * 255, 1000))

\* round(proportion * (NUM_LEDS - 1)), proportion being
\* (currentDistance - MIN_DISTANCE) / (MAX_DISTANCE - MIN_DISTANCE) constrained
\* to [0, 1]; the subtraction is unsigned, so a distance below MIN_DISTANCE
\* wraps to a large value and is constrained to 1
\* the position with the float cast to int (truncation) instead of round()
BaseLedPositionTruncated(currentDistance) ==
  LET den == MAX_DISTANCE - MIN_DISTANCE
      num == IF currentDistance < MIN_DISTANCE THEN den
             ELSE Constrain(currentDistance - MIN_DISTANCE, 0, den)
  IN  (num * (NUM_LEDS - 1)) \div den
BaseLedPosition(currentDistance) ==
  LET den == MAX_DISTANCE - MIN_DISTANCE
      num == IF currentDistance < MIN_DISTANCE THEN den
             ELSE Constrain(currentDistance - MIN_DISTANCE, 0, den)
  IN  (2 * num * (NUM_LEDS - 1) + den) \div (2 * den)

CenterLED(currentDistance) ==
  Constrain(BaseLedPosition(currentDistance) + centerShift, 0, NUM_LEDS - 1)

\* half of the length rounded up
HalfLengthRounded == TruncDiv(movingLength + 1, 2)
\* int halfLength = movingLength / 2
HalfLength == TruncDiv(movingLength, 2)

StartLed(currentDistance) ==
  Constrain(CenterLED(currentDistance) - HalfLength, 0, NUM_LEDS - 1)

\* the end of the span without the clamp to the strip
EndLedUnclamped(currentDistance) ==
  CenterLED(currentDistance) + HalfLength
    - (IF movingLength % 2 = 0 THEN 1 ELSE 0)
EndLed(currentDistance) ==
  Constrain(CenterLED(currentDistance) + HalfLength
              - (IF movingLength % 2 = 0 THEN 1 ELSE 0), 0, NUM_LEDS - 1)

\* fade factor of beam pixel i as <<numerator, denominator>>
BeamFactor(i, startLed, endLed) ==
  LET fadeWidth == Min(HalfLength, 5)
      distFromStart == i - startLed
      distFromEnd == endLed - i
  IN  IF fadeWidth > 0 /\ movingLength > 1
      THEN IF distFromStart < fadeWidth THEN <<distFromStart, fadeWidth>>
           ELSE IF distFromEnd < fadeWidth THEN <<distFromEnd, fadeWidth>>
           ELSE <<1, 1>>
      ELSE <<1, 1>>

\* fade factor of trail pixel number i (1 .. additionalLEDs)
TrailFactor(i) ==
  LET fadeWidthAdditional == Min(TruncDiv(additionalLEDs, 2), 5)
  IN  IF fadeWidthAdditional > 0 /\ additionalLEDs > 1
         /\ i > additionalLEDs - fadeWidthAdditional
      THEN <<additionalLEDs - i, fadeWidthAdditional>>
      ELSE <<1, 1>>

\* movingColor.scale8(movingIntensity * factor * 255.0f)
BeamColor(f) ==
  ScaleRGB(baseColor, FloatToU8(movingIntensity * f[1] * 255, 1000 * f[2]))

\* movingColor.scale8(movingIntensity * factor * 0.8f * 255.0f)
TrailColor(f) ==
  ScaleRGB(baseColor,
           FloatToU8(movingIntensity * f[1] * 8 * 255, 1000 * f[2] * 10))

\* leds[i] += color with a background, leds[i] = color without
Blend(pixel, color) == IF BackgroundOn THEN AddRGB(pixel, color) ELSE color

\* the trail index taken modulo NUM_LEDS instead of being skipped
TrailNumberWrapped(p, direction, startLed, endLed) ==
  IF direction = 0 \/ additionalLEDs <= 0 \/ movingIntensity <= 0 THEN 0
  ELSE LET i == IF direction > 0 THEN (p - endLed) % NUM_LEDS
                 ELSE (startLed - p) % NUM_LEDS
       IN  IF i >= 1 /\ i <= additionalLEDs THEN i ELSE 0
\* number (1 .. additionalLEDs) of the trail pixel at index p, 0 if none:
\* the loop writes idx = endLed + i or startLed - i for i = 1 .. additionalLeds
\* and skips idx < 0 and idx >= NUM_LEDS
TrailNumber(p, direction, startLed, endLed) ==
  IF direction = 0 \/ additionalLEDs <= 0 \/ movingIntensity <= 0 THEN 0
  ELSE LET i == IF direction > 0 THEN p - endLed ELSE startLed - p
       IN  IF i >= 1 /\ i <= additionalLEDs THEN i ELSE 0

\* lines 61-151: the buffer after the background, beam and trail steps,
\* buf being the buffer the iteration starts from
LightOnFrame(buf, currentDistance, direction, show) ==
  LET background ==
        IF BackgroundOn THEN FillSolid(buf, BackgroundColor)
        ELSE FillSolid(buf, Black)
      startLed == StartLed(currentDistance)
      endLed == EndLed(currentDistance)
      beamDrawn == movingLength > 0 /\ movingIntensity > 0
  IN  IF ~show THEN background
      ELSE [p \in Pixels |->
             LET afterBeam ==
                   IF beamDrawn /\ p >= startLed /\ p <= endLed
                   THEN Blend(background[p],
                              BeamColor(BeamFactor(p, startLed, endLed)))
                   ELSE background[p]
                 t == TrailNumber(p, direction, startLed, endLed)
             IN  IF t > 0 THEN Blend(afterBeam, TrailColor(TrailFactor(t)))
                 ELSE afterBeam]

\* the test that guards the clear of the light-off path:
\* leds[0] != CRGB::Black
FirstPixelLit(buf) == buf[0] # Black

(***************************************************************************)
(* ledTask (led_controller.cpp).                                           *)
(***************************************************************************)
\* prologue of ledTask, before its loop
LedTaskStart ==
  /\ ledPc = "start"
  /\ ledPc' = "loop"
  /\ lastSensorDistance' = g_sensorDistance
  /\ lastMovementDirection' = 0
  /\ lastMovementTime' = now
  /\ anchorDistance' = g_sensorDistance
  /\ UNCHANGED <<showMovingEffect, now>>
  /\ UNCHANGED <<sensorVars, pixelVars, stateVars, paramVars, twinLeds,
               planeVars, frame>>

\* the movement test without the noise threshold
MovedAtAll(currentDistance, previous) == currentDistance # previous
\* the movement test of the tracker: abs(diff) >= NOISE_THRESHOLD, diff being
\* (int)currentDistance - (int)lastSensorDistance
Moved(currentDistance, previous) ==
  Abs(currentDistance - previous) >= NOISE_THRESHOLD

\* the direction with the two senses exchanged
DirectionTowards(diff) == IF diff > 0 THEN -1 ELSE 1
\* (diff > 0) ? 1 : -1
DirectionOf(diff) == IF diff > 0 THEN 1 ELSE -1

\* the hold test with a strict comparison
HoldStrict(currentMillis, movementTime) ==
  currentMillis - movementTime < ledOffDelay * 1000
\* the hold test: currentMillis - lastMovementTime <= getLedOffDelay() * 1000
\* (32-bit unsigned operands; the clock does not wrap before MaxMillis; a
\* negative ledOffDelay converts to a bound above every elapsed time here)
Hold(currentMillis, movementTime) ==
  IF ledOffDelay < 0 THEN TRUE
  ELSE currentMillis - movementTime <= ledOffDelay * 1000

\* one iteration of the loop of ledTask, up to its vTaskDelay; dt is the
\* time that passed since the previous reading of millis()
LedIteration(dt) ==
  /\ ledPc = "loop"
  /\ now + dt <= MaxMillis
  /\ LET currentMillis == now + dt
         currentDistance == g_sensorDistance
         diff == currentDistance - lastSensorDistance
         moved == Moved(currentDistance, lastSensorDistance)
         movementTime == IF moved THEN currentMillis ELSE lastMovementTime
         direction == IF moved THEN DirectionOf(diff)
                      ELSE lastMovementDirection
         show == Hold(currentMillis, movementTime)
     IN  /\ now' = currentMillis
         /\ lastMovementTime' = movementTime
         /\ lastMovementDirection' = direction
         /\ lastSensorDistance' = currentDistance
         /\ anchorDistance' = IF moved THEN currentDistance ELSE anchorDistance
         /\ showMovingEffect' = show
         /\ IF ~lightOn
            THEN IF FirstPixelLit(leds)
                 THEN /\ leds' = FillSolid(leds, Black)
                      /\ shown' = leds'
                      /\ showCalled' = TRUE
                 ELSE /\ showCalled' = FALSE
                      /\ UNCHANGED <<leds, shown>>
            ELSE /\ leds' = LightOnFrame(leds, currentDistance, direction, show)
                 /\ shown' = leds'
                 /\ showCalled' = TRUE
  /\ UNCHANGED ledPc
  /\ UNCHANGED <<sensorVars, stateVars, paramVars, twinLeds, planeVars>>

\* the iteration where its locals are not followed
LedTask(dt) == LedIteration(dt) /\ UNCHANGED frame

(***************************************************************************)
(* Control plane: the state setters of the configuration store.            *)
(***************************************************************************)
\* setLightOn(value)
SetLightOn(value) ==
  /\ lightOn' = value
  /\ UNCHANGED backgroundModeActive
  /\ UNCHANGED <<sensorVars, trackVars, pixelVars, paramVars, twinLeds,
               planeVars, frame>>

\* toggleBackgroundMode()
ToggleBackgroundMode ==
  /\ backgroundModeActive' = ~backgroundModeActive
  /\ UNCHANGED lightOn
  /\ UNCHANGED <<sensorVars, trackVars, pixelVars, paramVars, twinLeds,
               planeVars, frame>>

(***************************************************************************)
(* Specifications.                                                         *)
(***************************************************************************)
\* parameter values the store holds after boot
InitParams ==
  /\ baseColor = <<255, 200, 50>>
  /\ movingIntensity = 1000
  /\ stationaryIntensity = 100
  /\ movingLength = 10
  /\ centerShift = 0
  /\ additionalLEDs = 5
  /\ ledOffDelay = 1
  /\ updateInterval = 20

\* the settings held by the static variables of the store, as one record
Settings ==
  [updateInterval |-> updateInterval, ledOffDelay |-> ledOffDelay,
   movingIntensity |-> movingIntensity,
   stationaryIntensity |-> stationaryIntensity,
   movingLength |-> movingLength, centerShift |-> centerShift,
   additionalLEDs |-> additionalLEDs, baseColor |-> baseColor,
   startHour |-> startHour, startMinute |-> startMinute,
   endHour |-> endHour, endMinute |-> endMinute]

(***************************************************************************)
(* Configuration store: the setters of storage.cpp. The two float fields   *)
(* are held in thousandths; NaN stands for a float that is not a number.   *)
(***************************************************************************)
\* number of store setter calls the model explores
MaxCalls == 2

NaN == 999999999
\* a < b on floats: false when either operand is NaN
FloatLess(a, b) == a # NaN /\ b # NaN /\ a < b
\* value == field on floats
FloatEqual(a, b) == a # NaN /\ b # NaN /\ a = b
\* constrain(amt, low, high) on floats:
\* ((amt)<(low)?(low):((amt)>(high)?(high):(amt)))
FloatConstrain(amt, low, high) ==
  IF FloatLess(amt, low) THEN low
  ELSE IF FloatLess(high, amt) THEN high ELSE amt

\* the static variables of the store take the values of record s
ApplySettings(s) ==
  /\ updateInterval' = s.updateInterval
  /\ ledOffDelay' = s.ledOffDelay
  /\ movingIntensity' = s.movingIntensity
  /\ stationaryIntensity' = s.stationaryIntensity
  /\ movingLength' = s.movingLength
  /\ centerShift' = s.centerShift
  /\ additionalLEDs' = s.additionalLEDs
  /\ baseColor' = s.baseColor
  /\ startHour' = s.startHour
  /\ startMinute' = s.startMinute
  /\ endHour' = s.endHour
  /\ endMinute' = s.endMinute

\* saveEepromSettings() with the store holding record s
saveEepromSettings(s) == eeprom' = s /\ lastSave' = "saved"

\* what a setter call leaves alone, and its trace in the history variables
SetterFrame(name) ==
  /\ storeCalls < MaxCalls
  /\ storeCalls' = storeCalls + 1
  /\ lastCall' = name
  /\ UNCHANGED <<sensorVars, trackVars, pixelVars, stateVars, twinLeds,
                 smarthomeOverride, frame, nowSec, evalParity, lastMsg,
                 txRest, burst, mqtt, timeCall>>

\* the setter returns before it stores anything
ReturnEarly == UNCHANGED eeprom /\ lastSave' = "skipped"

\* the shape of the integer setters:
\*   if (value == field) return; field = constrain(value, lo, hi);
\*   saveEepromSettings();
SetIntField(name, field, value, lo, hi) ==
  /\ SetterFrame(name)
  /\ IF value = Settings[field]
     THEN ApplySettings(Settings) /\ ReturnEarly
     ELSE LET s == [Settings EXCEPT ![field] = Constrain(value, lo, hi)]
          IN  ApplySettings(s) /\ saveEepromSettings(s)

setUpdateInterval(value) ==
  SetIntField("setUpdateInterval", "updateInterval", value, 5, 100)
setLedOffDelay(value) ==
  SetIntField("setLedOffDelay", "ledOffDelay", value, 1, 60)
setMovingLength(value) ==
  SetIntField("setMovingLength", "movingLength", value, 1, NUM_LEDS)
setCenterShift(value) ==
  SetIntField("setCenterShift", "centerShift", value,
              -(NUM_LEDS \div 2), NUM_LEDS \div 2)
setAdditionalLEDs(value) ==
  SetIntField("setAdditionalLEDs", "additionalLEDs", value, 0,
              NUM_LEDS \div 2)
setStartHour(value) == SetIntField("setStartHour", "startHour", value, 0, 23)
setStartMinute(value) ==
  SetIntField("setStartMinute", "startMinute", value, 0, 59)
setEndHour(value) == SetIntField("setEndHour", "endHour", value, 0, 23)
setEndMinute(value) == SetIntField("setEndMinute", "endMinute", value, 0, 59)

setMovingIntensity(value) ==
  /\ SetterFrame("setMovingIntensity")
  /\ IF FloatEqual(value, movingIntensity)
     THEN ApplySettings(Settings) /\ ReturnEarly
     ELSE LET s == [Settings EXCEPT
                      !.movingIntensity = FloatConstrain(value, 0, 1000)]
          IN  ApplySettings(s) /\ saveEepromSettings(s)

\* value = constrain(value, 0.0f, 0.1f);
\* if (abs(value - stationaryIntensity) < 0.0001f) return;
setStationaryIntensity(value) ==
  /\ SetterFrame("setStationaryIntensity")
  /\ LET clamped == FloatConstrain(value, 0, 100)
     IN  IF FloatEqual(clamped, stationaryIntensity)
         THEN ApplySettings(Settings) /\ ReturnEarly
         ELSE LET s == [Settings EXCEPT !.stationaryIntensity = clamped]
              IN  ApplySettings(s) /\ saveEepromSettings(s)

setBaseColor(color) ==
  /\ SetterFrame("setBaseColor")
  /\ IF color = baseColor
     THEN ApplySettings(Settings) /\ ReturnEarly
     ELSE LET s == [Settings EXCEPT !.baseColor = color]
          IN  ApplySettings(s) /\ saveEepromSettings(s)

\* the smart-home endpoints of the web server
handleSmartHomeOn ==
  /\ lightOn' = TRUE
  /\ smarthomeOverride' = TRUE
  /\ UNCHANGED <<sensorVars, trackVars, pixelVars, backgroundModeActive,
                 paramVars, twinLeds, schedVars, eeprom, lastCall, storeCalls,
                 frame, envVars>>

\* the endpoint clearing the strip itself
handleSmartHomeOffClearing ==
  /\ lightOn' = FALSE
  /\ smarthomeOverride' = TRUE
  /\ leds' = FillSolid(leds, Black)
  /\ UNCHANGED <<sensorVars, trackVars, shown, showCalled,
                 backgroundModeActive, paramVars, twinLeds, schedVars, eeprom,
                 lastCall, storeCalls, frame, envVars>>

handleSmartHomeOff ==
  /\ lightOn' = FALSE
  /\ smarthomeOverride' = TRUE
  /\ UNCHANGED <<sensorVars, trackVars, pixelVars, backgroundModeActive,
                 paramVars, twinLeds, schedVars, eeprom, lastCall, storeCalls,
                 frame, envVars>>

handleSmartHomeClear ==
  /\ smarthomeOverride' = FALSE
  /\ UNCHANGED <<sensorVars, trackVars, pixelVars, stateVars, paramVars,
                 twinLeds, schedVars, eeprom, lastCall, storeCalls, frame,
                 envVars>>

\* the MQTT client after boot without saved MQTT settings. enabled is
\* mqttEnabled, configured hasMqttSettings(), server the saved broker
\* settings, wifi WiFi.status() ==
\* WL_CONNECTED, connected mqttClient.connected(), lastAttempt
\* lastMqttReconnectAttempt, lastDiscovery lastHADiscoveryTime, ms millis().
\* History: calls is the parity of the calls of handleHomeAssistant(),
\* attempted whether the latest call tried to connect, failedAt the time of
\* the latest failed attempt (-1: none since the settings or the WiFi link
\* changed or a connection succeeded), fresh whether a connection succeeded
\* and no call came since, publishedAt the time of the latest discovery
\* publication (-1: none), pub what the latest handler published, in order,
\* parsed whether the payload of the latest message was a JSON document
MqttBoot ==
  [enabled |-> FALSE, configured |-> FALSE, server |-> "", wifi |-> TRUE,
   connected |-> FALSE, lastAttempt |-> 0, lastDiscovery |-> 0, ms |-> 1,
   calls |-> 0, attempted |-> FALSE, failedAt |-> -1, fresh |-> FALSE,
   publishedAt |-> -1, pub |-> << >>, parsed |-> TRUE]

\* the clock is not synchronised at boot, no schedule evaluation and no MQTT
\* message yet, the sensor line idle and clean
InitEnv ==
  /\ nowSec = 0
  /\ evalParity = 0
  /\ lastMsg = [parity |-> 0, state |-> "absent"]
  /\ txRest = << >>
  /\ burst = "none"
  /\ lastSave = "none"
  /\ mqtt = MqttBoot
  /\ timeCall = [parity |-> 0, set |-> FALSE]

\* schedule and control-plane state after boot, the EEPROM holding the
\* settings in use
InitPlane ==
  /\ startHour = 20
  /\ startMinute = 0
  /\ endHour = 8
  /\ endMinute = 30
  /\ eeprom = Settings
  /\ smarthomeOverride = FALSE
  /\ lastCall = "none"
  /\ storeCalls = 0
  /\ frame = [pc |-> "none"]
  /\ InitEnv

Init ==
  /\ rxBuf = << >>
  /\ g_sensorDistance = DEFAULT_DISTANCE
  /\ sensorPc = "read"
  /\ lastRead = "none"
  /\ ledPc = "start"
  /\ lastSensorDistance = DEFAULT_DISTANCE
  /\ lastMovementDirection = 0
  /\ lastMovementTime = 0
  /\ showMovingEffect = FALSE
  /\ now = 0
  /\ anchorDistance = DEFAULT_DISTANCE
  /\ leds = AllBlack
  /\ shown = AllBlack
  /\ showCalled = FALSE
  /\ lightOn = TRUE
  /\ backgroundModeActive = FALSE
  /\ InitParams
  /\ twinLeds = << >>
  /\ InitPlane

\* the whole firmware: sensor frames, decode task, render task, control plane
Next ==
  \/ \E d \in Distances : SerialReceiveFrame(d)
  \/ SensorTask
  \/ SensorWake
  \/ LedTaskStart
  \/ \E dt \in TimeSteps : LedTask(dt)
  \/ \E value \in BOOLEAN : SetLightOn(value)
  \/ ToggleBackgroundMode

Spec == Init /\ [][Next]_vars

\* the decoder alone, fed byte by byte
NextSensor ==
  \/ \E b \in Bytes : SerialReceiveByte(b)
  \/ SensorTask
  \/ SensorWake

SpecSensor == Init /\ [][NextSensor]_vars

(***************************************************************************)
(* The configuration store alone: boot, then setter calls.                 *)
(***************************************************************************)
\* arguments the control plane passes to the integer setters
IntArgs == {-1, 7, 1000}
\* arguments it passes to the float setters, in thousandths
FloatArgs == {NaN, -1000, 300, 2000}
\* colours it passes to setBaseColor
ColorArgs == {<<255, 200, 50>>, <<0, 0, 255>>}

\* the settings a blank EEPROM (every byte 0xFF) loads: -1 in every int,
\* a NaN in every float
BlankSettings ==
  [updateInterval |-> -1, ledOffDelay |-> -1, movingIntensity |-> NaN,
   stationaryIntensity |-> NaN, movingLength |-> -1, centerShift |-> -1,
   additionalLEDs |-> -1, baseColor |-> <<255, 255, 255>>,
   startHour |-> -1, startMinute |-> -1, endHour |-> -1, endMinute |-> -1]

\* settings saved by an earlier run
SavedSettings ==
  [updateInterval |-> 20, ledOffDelay |-> 1, movingIntensity |-> 1000,
   stationaryIntensity |-> 100, movingLength |-> 10, centerShift |-> 0,
   additionalLEDs |-> 5, baseColor |-> <<255, 200, 50>>,
   startHour |-> 20, startMinute |-> 0, endHour |-> 8, endMinute |-> 30]

\* initStorage(): loadEepromSettings() copies the EEPROM content into the
\* static variables as it is
InitStore ==
  /\ rxBuf = << >>
  /\ g_sensorDistance = DEFAULT_DISTANCE
  /\ sensorPc = "read"
  /\ lastRead = "none"
  /\ ledPc = "start"
  /\ lastSensorDistance = DEFAULT_DISTANCE
  /\ lastMovementDirection = 0
  /\ lastMovementTime = 0
  /\ showMovingEffect = FALSE
  /\ now = 0
  /\ anchorDistance = DEFAULT_DISTANCE
  /\ leds = AllBlack
  /\ shown = AllBlack
  /\ showCalled = FALSE
  /\ lightOn = TRUE
  /\ backgroundModeActive = FALSE
  /\ twinLeds = << >>
  /\ eeprom \in {SavedSettings, BlankSettings}
  /\ updateInterval = eeprom.updateInterval
  /\ ledOffDelay = eeprom.ledOffDelay
  /\ movingIntensity = eeprom.movingIntensity
  /\ stationaryIntensity = eeprom.stationaryIntensity
  /\ movingLength = eeprom.movingLength
  /\ centerShift = eeprom.centerShift
  /\ additionalLEDs = eeprom.additionalLEDs
  /\ baseColor = eeprom.baseColor
  /\ startHour = eeprom.startHour
  /\ startMinute = eeprom.startMinute
  /\ endHour = eeprom.endHour
  /\ endMinute = eeprom.endMinute
  /\ smarthomeOverride = FALSE
  /\ lastCall = "none"
  /\ storeCalls = 0
  /\ frame = [pc |-> "none"]
  /\ InitEnv

NextStore ==
  \/ \E value \in IntArgs : setUpdateInterval(value)
  \/ \E value \in IntArgs : setLedOffDelay(value)
  \/ \E value \in FloatArgs : setMovingIntensity(value)
  \/ \E value \in FloatArgs : setStationaryIntensity(value)
  \/ \E value \in IntArgs : setMovingLength(value)
  \/ \E value \in IntArgs : setCenterShift(value)
  \/ \E value \in IntArgs : setAdditionalLEDs(value)
  \/ \E color \in ColorArgs : setBaseColor(color)
  \/ \E value \in IntArgs : setStartHour(value)
  \/ \E value \in IntArgs : setStartMinute(value)
  \/ \E value \in IntArgs : setEndHour(value)
  \/ \E value \in IntArgs : setEndMinute(value)

SpecStore == InitStore /\ [][NextStore]_vars

(***************************************************************************)
(* The three task contexts side by side: decode task, render task and the  *)
(* control plane (smart-home endpoints, background toggle, setters).       *)
(***************************************************************************)
\* distances of the frames the sensor sends here
OwnerDistances == {994}
\* milliseconds between two iterations of ledTask here
OwnerSteps == {501}

NextOwner ==
  \/ \E d \in OwnerDistances : SerialReceiveFrame(d)
  \/ SensorTask
  \/ SensorWake
  \/ LedTaskStart
  \/ \E dt \in OwnerSteps : LedTask(dt)
  \/ handleSmartHomeOn
  \/ handleSmartHomeOff
  \/ handleSmartHomeClear
  \/ ToggleBackgroundMode
  \/ \E value \in {7} : setMovingLength(value)
  \/ \E color \in {<<0, 0, 255>>} : setBaseColor(color)

SpecOwner == Init /\ [][NextOwner]_vars

(***************************************************************************)
(* One light-on iteration of ledTask statement by statement, the control   *)
(* plane (webServerTask, on the other core) running alongside. frame holds *)
(* the locals of the iteration: pc is the statement it is about to run, i  *)
(* the counter of the loop it is in, drawn the indices of leds[] the beam  *)
(* and trail loops have written, path the branch taken at line 47, top the *)
(* value updateInterval had when the iteration started and ticks the       *)
(* argument of its vTaskDelay.                                             *)
(***************************************************************************)
\* does the iteration draw the main beam / the trail
FrameDrawsBeam ==
  frame.movingLength > 0 /\ FloatLess(0, frame.movingIntensity)
FrameDrawsTrail ==
  /\ lastMovementDirection # 0
  /\ frame.additionalLeds > 0
  /\ FloatLess(0, frame.movingIntensity)

\* isBackgroundModeActive() && bgIntensity > 0.0f, as lines 114 and 144
\* evaluate it: the flag is read again, bgIntensity is the local
FrameBackgroundOn == backgroundModeActive /\ FloatLess(0, frame.bgIntensity)

\* lines 62-70: the background step
FrameBackground ==
  /\ frame.pc = "background"
  /\ leds' = IF backgroundModeActive /\ FloatLess(0, stationaryIntensity)
             THEN FillSolid(leds, ScaleRGB(baseColor,
                                  FloatToU8(stationaryIntensity * 255, 1000)))
             ELSE FillSolid(leds, Black)
  /\ frame' = [frame EXCEPT !.pc = IF showMovingEffect THEN "locals"
                                   ELSE "show",
                            !.baseBgColor = baseColor,
                            !.bgIntensity = stationaryIntensity]
  /\ UNCHANGED <<sensorVars, trackVars, shown, showCalled, stateVars,
                 paramVars, twinLeds, planeVars>>

\* lines 74-92: the locals of the beam
FrameLocals ==
  /\ frame.pc = "locals"
  /\ frame' = [frame EXCEPT !.pc = "beam",
                            !.movingColor = baseColor,
                            !.movingIntensity = movingIntensity,
                            !.movingLength = movingLength,
                            !.centerShift = centerShift,
                            !.additionalLeds = additionalLEDs,
                            !.startLed = StartLed(lastSensorDistance),
                            !.endLed = EndLed(lastSensorDistance),
                            !.i = StartLed(lastSensorDistance),
                            !.drawn = {}]
  /\ UNCHANGED <<sensorVars, trackVars, pixelVars, stateVars, paramVars,
                 twinLeds, planeVars>>

\* lines 98-119: one iteration of the beam loop
FrameBeamPixel ==
  /\ frame.pc = "beam"
  /\ FrameDrawsBeam
  /\ frame.i <= frame.endLed
  /\ LET factor == BeamFactor(frame.i, frame.startLed, frame.endLed)
         color == ScaleRGB(frame.movingColor,
                           FloatToU8(frame.movingIntensity * factor[1] * 255,
                                     1000 * factor[2]))
     IN  leds' = [leds EXCEPT ![frame.i] =
                    IF FrameBackgroundOn THEN AddRGB(@, color) ELSE color]
  /\ frame' = [frame EXCEPT !.i = @ + 1, !.drawn = @ \cup {frame.i}]
  /\ UNCHANGED <<sensorVars, trackVars, shown, showCalled, stateVars,
                 paramVars, twinLeds, planeVars>>

\* the beam loop is over (or skipped, line 95)
FrameBeamEnd ==
  /\ frame.pc = "beam"
  /\ ~FrameDrawsBeam \/ frame.i > frame.endLed
  /\ frame' = [frame EXCEPT !.pc = "trail", !.i = 1]
  /\ UNCHANGED <<sensorVars, trackVars, pixelVars, stateVars, paramVars,
                 twinLeds, planeVars>>

\* the bounds check of the trail without its upper side
TrailInBoundsLower(idx) == idx >= 0
\* line 131: if (idx < 0 || idx >= NUM_LEDS) continue;
TrailInBounds(idx) == ~(idx < 0 \/ idx >= NUM_LEDS)

\* lines 126-149: one iteration of the trail loop
FrameTrailPixel ==
  /\ frame.pc = "trail"
  /\ FrameDrawsTrail
  /\ frame.i <= frame.additionalLeds
  /\ LET idx == IF lastMovementDirection > 0 THEN frame.endLed + frame.i
                ELSE frame.startLed - frame.i
         factor == TrailFactor(frame.i)
         color == ScaleRGB(frame.movingColor,
                    FloatToU8(frame.movingIntensity * factor[1] * 8 * 255,
                              1000 * factor[2] * 10))
     IN  IF ~TrailInBounds(idx)
         THEN /\ UNCHANGED leds
              /\ frame' = [frame EXCEPT !.i = @ + 1]
         ELSE /\ leds' = [leds EXCEPT ![idx] =
                            IF FrameBackgroundOn THEN AddRGB(@, color)
                            ELSE color]
              /\ frame' = [frame EXCEPT !.i = @ + 1,
                                        !.drawn = @ \cup {idx}]
  /\ UNCHANGED <<sensorVars, trackVars, shown, showCalled, stateVars,
                 paramVars, twinLeds, planeVars>>

\* the end of the trail loop without the test of line 123 that skips it
FrameTrailEndDrawn ==
  /\ frame.pc = "trail"
  /\ frame.i > frame.additionalLeds
  /\ frame' = [frame EXCEPT !.pc = "show"]
  /\ UNCHANGED <<sensorVars, trackVars, pixelVars, stateVars, paramVars,
                 twinLeds, planeVars>>
\* the trail loop is over (or skipped, line 123)
FrameTrailEnd ==
  /\ frame.pc = "trail"
  /\ ~FrameDrawsTrail \/ frame.i > frame.additionalLeds
  /\ frame' = [frame EXCEPT !.pc = "show"]
  /\ UNCHANGED <<sensorVars, trackVars, pixelVars, stateVars, paramVars,
                 twinLeds, planeVars>>

\* line 154: FastLED.show()
FrameShow ==
  /\ frame.pc = "show"
  /\ shown' = leds
  /\ showCalled' = TRUE
  /\ frame' = [frame EXCEPT !.pc = "done"]
  /\ UNCHANGED <<sensorVars, trackVars, leds, stateVars, paramVars,
                 twinLeds, planeVars>>

\* the delay with the interval the iteration found when it started
FrameDelayFromTop ==
  /\ frame.pc = "done"
  /\ frame' = [frame EXCEPT !.pc = "delay", !.ticks = frame.top]
  /\ UNCHANGED <<sensorVars, trackVars, pixelVars, stateVars, paramVars,
                 twinLeds, planeVars>>
\* lines 55 and 157: vTaskDelay(pdMS_TO_TICKS(getUpdateInterval())), one
\* tick being one millisecond
FrameDelay ==
  /\ frame.pc = "done"
  /\ frame' = [frame EXCEPT !.pc = "delay", !.ticks = updateInterval]
  /\ UNCHANGED <<sensorVars, trackVars, pixelVars, stateVars, paramVars,
                 twinLeds, planeVars>>

\* the iteration has passed the tracker (lines 25-43) and found the light on
\* and the hold active; the previous frame left the buffer black
InitRace ==
  /\ rxBuf = << >>
  /\ g_sensorDistance = 510
  /\ sensorPc = "read"
  /\ lastRead = "none"
  /\ ledPc = "loop"
  /\ lastSensorDistance = 510
  /\ lastMovementDirection = 1
  /\ lastMovementTime = 0
  /\ showMovingEffect = TRUE
  /\ now = 0
  /\ anchorDistance = 510
  /\ leds = AllBlack
  /\ shown = AllBlack
  /\ showCalled = FALSE
  /\ lightOn = TRUE
  /\ backgroundModeActive \in BOOLEAN
  /\ baseColor = <<255, 200, 50>>
  /\ movingIntensity = 1000
  /\ stationaryIntensity = 100
  /\ movingLength = 3
  /\ centerShift = 0
  /\ additionalLEDs = 2
  /\ ledOffDelay = 1
  /\ updateInterval = 20
  /\ twinLeds = << >>
  /\ startHour = 20
  /\ startMinute = 0
  /\ endHour = 8
  /\ endMinute = 30
  /\ eeprom = Settings
  /\ smarthomeOverride = FALSE
  /\ lastCall = "none"
  /\ storeCalls = 0
  /\ InitEnv
  /\ frame = [pc |-> "background", baseBgColor |-> Black, bgIntensity |-> 0,
              movingColor |-> Black, movingIntensity |-> 0,
              movingLength |-> 0, centerShift |-> 0, additionalLeds |-> 0,
              startLed |-> 0, endLed |-> 0, i |-> 0, drawn |-> {},
              path |-> "on", top |-> updateInterval, ticks |-> 0]

NextRace ==
  \/ FrameBackground
  \/ FrameLocals
  \/ FrameBeamPixel
  \/ FrameBeamEnd
  \/ FrameTrailPixel
  \/ FrameTrailEnd
  \/ FrameShow
  \/ ToggleBackgroundMode
  \/ \E color \in ColorArgs : setBaseColor(color)

SpecRace == InitRace /\ [][NextRace]_vars

(***************************************************************************)
(* The sensor line with a burst of corruption: the sensor sends frames     *)
(* byte by byte; during the burst the bytes on the line are corrupted and  *)
(* the frame in transmission is cut; afterwards the sensor sends whole     *)
(* well-formed frames again.                                               *)
(***************************************************************************)
\* distances of the frames sent before the burst and after it
CleanDistances == {994}
HealedDistances == {997}
\* byte values the line delivers during the burst
BurstBytes == {0, SENSOR_HEADER}

\* the UART receives the next byte of the frame the sensor is sending, the
\* first byte of a new frame when none is in transmission; the receive
\* buffer holds two frames here
SensorSendNext ==
  /\ burst # "on"
  /\ Len(rxBuf) < 2 * MaxRx
  /\ \E d \in (IF burst = "over" THEN HealedDistances ELSE CleanDistances) :
       LET bytes == IF txRest = << >> THEN Frame(d) ELSE txRest
       IN  /\ rxBuf' = Append(rxBuf, Head(bytes))
           /\ txRest' = Tail(bytes)
  /\ UNCHANGED <<g_sensorDistance, sensorPc, lastRead>>
  /\ UNCHANGED <<trackVars, pixelVars, stateVars, paramVars, twinLeds,
                 schedVars, eeprom, smarthomeOverride, lastCall, storeCalls,
                 frame, nowSec, evalParity, lastMsg, burst, lastSave, mqtt, timeCall>>

\* the burst starts: the rest of the frame in transmission is lost
BurstStarts ==
  /\ burst = "none"
  /\ burst' = "on"
  /\ txRest' = << >>
  /\ UNCHANGED <<sensorVars, trackVars, pixelVars, stateVars, paramVars,
                 twinLeds, schedVars, eeprom, smarthomeOverride, lastCall,
                 storeCalls, frame, nowSec, evalParity, lastMsg,
                 lastSave, mqtt, timeCall>>

\* the UART receives a corrupted byte
SensorSendCorrupt(b) ==
  /\ burst = "on"
  /\ Len(rxBuf) < MaxRx
  /\ rxBuf' = Append(rxBuf, b)
  /\ UNCHANGED <<g_sensorDistance, sensorPc, lastRead>>
  /\ UNCHANGED <<trackVars, pixelVars, stateVars, paramVars, twinLeds,
                 planeVars, frame>>

\* the burst is over: from now on the sensor sends whole frames
BurstEnds ==
  /\ burst = "on"
  /\ burst' = "over"
  /\ UNCHANGED <<sensorVars, trackVars, pixelVars, stateVars, paramVars,
                 twinLeds, schedVars, eeprom, smarthomeOverride, lastCall,
                 storeCalls, frame, nowSec, evalParity, lastMsg, txRest,
                 lastSave, mqtt, timeCall>>

NextHeal ==
  \/ SensorSendNext
  \/ BurstStarts
  \/ \E b \in BurstBytes : SensorSendCorrupt(b)
  \/ BurstEnds
  \/ SensorTask
  \/ SensorWake

\* sensorTask runs again after every vTaskDelay(5) and the sensor keeps
\* sending
SpecHeal ==
  /\ Init
  /\ [][NextHeal]_vars
  /\ WF_vars(SensorTask)
  /\ WF_vars(SensorWake)
  /\ WF_vars(SensorSendNext)

(***************************************************************************)
(* Schedule and smart-home override: the periodic schedule evaluation of   *)
(* loop() (updateTimeBasedState), the MQTT command callback and the        *)
(* endpoints that set the clock and the override.                          *)
(***************************************************************************)
\* time(nullptr) below this value: the clock is not synchronised
ValidEpoch == 1000000000

\* tm_hour * 60 + tm_min of getLocalTime(), the time zone being UTC0
MinuteOfDay(sec) == (sec \div 60) % 1440

\* the window test with the end of the window included
InWindowClosed(cur, start, end) ==
  IF start <= end THEN cur >= start /\ cur <= end
  ELSE cur >= start \/ cur <= end
\* shouldBeOn: lines 60-66 of updateTimeBasedState
InWindow(cur, start, end) ==
  IF start <= end THEN cur >= start /\ cur < end
  ELSE cur >= start \/ cur < end

\* shouldBeOn for the clock and the schedule of the current state
ShouldBeOn ==
  InWindow(MinuteOfDay(nowSec), startHour * 60 + startMinute,
           endHour * 60 + endMinute)

\* a call of updateTimeBasedState() that finds checkInterval elapsed (any
\* other call returns at once and changes nothing)
updateTimeBasedState ==
  /\ evalParity' = 1 - evalParity
  /\ IF nowSec < ValidEpoch THEN UNCHANGED lightOn
     ELSE IF ~smarthomeOverride THEN lightOn' = ShouldBeOn
     ELSE UNCHANGED lightOn
  /\ UNCHANGED <<sensorVars, trackVars, pixelVars, backgroundModeActive,
                 paramVars, twinLeds, schedVars, eeprom, smarthomeOverride,
                 lastCall, storeCalls, frame, nowSec, lastMsg, txRest, burst,
                 lastSave, mqtt, timeCall>>

\* updateTime() of the sketch LightTrack-PRO.ino, when a second has elapsed
updateTime ==
  /\ evalParity' = 1 - evalParity
  /\ IF nowSec < ValidEpoch THEN lightOn' = TRUE
     ELSE IF ~smarthomeOverride THEN lightOn' = ShouldBeOn
     ELSE UNCHANGED lightOn
  /\ UNCHANGED <<sensorVars, trackVars, pixelVars, backgroundModeActive,
                 paramVars, twinLeds, schedVars, eeprom, smarthomeOverride,
                 lastCall, storeCalls, frame, nowSec, lastMsg, txRest, burst,
                 lastSave, mqtt, timeCall>>

\* handleSmartHomeClear() of the sketch: the schedule is applied at once
handleSmartHomeClearSketch ==
  /\ smarthomeOverride' = FALSE
  /\ lightOn' = IF nowSec < ValidEpoch THEN TRUE ELSE ShouldBeOn
  /\ UNCHANGED <<sensorVars, trackVars, pixelVars, backgroundModeActive,
                 paramVars, twinLeds, schedVars, eeprom, lastCall, storeCalls,
                 frame, envVars>>

\* String::toUpperCase() on the strings the model sends
ToUpperCase(str) ==
  CASE str = "on" -> "ON"
    [] str = "off" -> "OFF"
    [] OTHER -> str

\* An MQTT message: valid says whether deserializeJson() accepts the
\* payload; "state" and "background_mode" hold a string or "absent"; every
\* other key holds << >> when the document lacks it and <<v>> when it has
\* the value v; a colour object is a record of the components it has.
NoKeys ==
  [valid |-> TRUE, state |-> "absent", color |-> << >>, rgb |-> << >>,
   brightness |-> << >>, background_mode |-> "absent",
   moving_length |-> << >>, center_shift |-> << >>,
   additional_leds |-> << >>, led_off_delay |-> << >>,
   update_interval |-> << >>, moving_intensity |-> << >>,
   stationary_intensity |-> << >>]

\* a parse error that is not noticed
ParseFailedNever(msg) == FALSE
\* DeserializationError error = deserializeJson(doc, message); if (error)
ParseFailed(msg) == ~msg.valid

\* obj.containsKey("r") && obj.containsKey("g") && obj.containsKey("b")
HasRGB(obj) == {"r", "g", "b"} \subseteq DOMAIN obj

\* the colour the message sets, << >> when it sets none: "color" is looked
\* at first and "rgb" only in a document without "color"
ColorOf(msg) ==
  IF msg.color # << >>
  THEN IF HasRGB(msg.color[1])
       THEN <<(<<msg.color[1].r, msg.color[1].g, msg.color[1].b>>)>>
       ELSE << >>
  ELSE IF msg.rgb # << >> /\ HasRGB(msg.rgb[1])
       THEN <<(<<msg.rgb[1].r, msg.rgb[1].g, msg.rgb[1].b>>)>>
       ELSE << >>

\* constrain(brightness / 255.0f, 0.0f, 1.0f), in thousandths
BrightnessIntensity(brightness) ==
  Constrain(TruncDiv(brightness * 1000, 255), 0, 1000)

\* The setters called from within one handler act on c, the settings s of
\* the store, the EEPROM contents rom and the outcome last of the latest
\* setter. c after a setter that stores value v into field, or returns early
Stored(c, same, field, v) ==
  IF same THEN [c EXCEPT !.last = "skipped"]
  ELSE LET s == [c.s EXCEPT ![field] = v]
       IN  [s |-> s, rom |-> s, last |-> "saved"]

\* c after an integer setter called when the key is there
IntKey(c, opt, field, lo, hi) ==
  IF opt = << >> THEN c
  ELSE Stored(c, opt[1] = c.s[field], field, Constrain(opt[1], lo, hi))

\* c after setMovingIntensity(value) called when the key is there
MovingKey(c, opt) ==
  IF opt = << >> THEN c
  ELSE Stored(c, FloatEqual(opt[1], c.s.movingIntensity), "movingIntensity",
              FloatConstrain(opt[1], 0, 1000))

\* c after setStationaryIntensity(value) called when the key is there
StationaryKey(c, opt) ==
  IF opt = << >> THEN c
  ELSE LET clamped == FloatConstrain(opt[1], 0, 100)
       IN  Stored(c, FloatEqual(clamped, c.s.stationaryIntensity),
                  "stationaryIntensity", clamped)

\* c after setBaseColor(color) called when the message sets a colour
ColorKey(c, opt) ==
  IF opt = << >> THEN c
  ELSE Stored(c, opt[1] = c.s.baseColor, "baseColor", opt[1])

\* the store after the setters mqttCallback() calls for msg, in the order
\* of the code
StoreAfter(msg) ==
  LET c0 == [s |-> Settings, rom |-> eeprom, last |-> lastSave]
      c1 == ColorKey(c0, ColorOf(msg))
      c2 == MovingKey(c1, IF msg.brightness = << >> THEN << >>
                          ELSE <<BrightnessIntensity(msg.brightness[1])>>)
      c3 == IntKey(c2, msg.moving_length, "movingLength", 1, NUM_LEDS)
      c4 == IntKey(c3, msg.center_shift, "centerShift",
                   -(NUM_LEDS \div 2), NUM_LEDS \div 2)
      c5 == IntKey(c4, msg.additional_leds, "additionalLEDs", 0,
                   NUM_LEDS \div 2)
      c6 == IntKey(c5, msg.led_off_delay, "ledOffDelay", 1, 60)
      c7 == IntKey(c6, msg.update_interval, "updateInterval", 5, 100)
      c8 == MovingKey(c7, msg.moving_intensity)
  IN  StationaryKey(c8, msg.stationary_intensity)

\* what publishState() publishes
publishState == IF mqtt.connected THEN <<"state">> ELSE << >>

\* mqttCallback() for the message msg
mqttCallback(msg) ==
  /\ lastMsg' = [parity |-> 1 - lastMsg.parity,
                 state |-> IF ParseFailed(msg) THEN "absent" ELSE msg.state]
  /\ IF ParseFailed(msg)
     THEN /\ mqtt' = [mqtt EXCEPT !.pub = << >>, !.parsed = FALSE]
          /\ UNCHANGED <<stateVars, paramVars, schedVars, eeprom, lastSave,
                         smarthomeOverride>>
     ELSE LET newState == ToUpperCase(msg.state) = "ON"
              switched == msg.state # "absent" /\ lightOn # newState
              c == StoreAfter(msg)
              stateChanged ==
                \/ switched
                \/ ColorOf(msg) # << >>
                \/ msg.background_mode # "absent"
                \/ \E key \in {"brightness", "moving_length", "center_shift",
                               "additional_leds", "led_off_delay",
                               "update_interval", "moving_intensity",
                               "stationary_intensity"} : msg[key] # << >>
          IN  /\ IF switched
                 THEN lightOn' = newState /\ smarthomeOverride' = TRUE
                 ELSE UNCHANGED <<lightOn, smarthomeOverride>>
              /\ backgroundModeActive' =
                   IF msg.background_mode = "absent"
                   THEN backgroundModeActive
                   ELSE ToUpperCase(msg.background_mode) = "ON"
              /\ ApplySettings(c.s)
              /\ eeprom' = c.rom
              /\ lastSave' = c.last
              /\ mqtt' = [mqtt EXCEPT
                            !.pub = IF stateChanged THEN publishState
                                    ELSE << >>,
                            !.parsed = TRUE]
  /\ UNCHANGED <<sensorVars, trackVars, pixelVars, twinLeds, lastCall,
                 storeCalls, frame, nowSec, evalParity, txRest, burst,
                 timeCall>>

\* a /setTime request without the argument epoch
Missing == -1

\* handleSetTime() that sets the clock and leaves the override as it is
handleSetTimeKeepingOverride(epoch) ==
  /\ timeCall' = [parity |-> 1 - timeCall.parity,
                  set |-> epoch # Missing /\ epoch > ValidEpoch]
  /\ IF epoch # Missing /\ epoch > ValidEpoch
     THEN nowSec' = epoch
     ELSE UNCHANGED nowSec
  /\ UNCHANGED <<sensorVars, trackVars, pixelVars, stateVars, paramVars,
                 twinLeds, schedVars, eeprom, smarthomeOverride, lastCall,
                 storeCalls, frame, evalParity, lastMsg, txRest, burst,
                 lastSave, mqtt>>
\* handleSetTime() with argument epoch (Missing: the request has none);
\* the argument tz is read and not used
handleSetTime(epoch) ==
  /\ timeCall' = [parity |-> 1 - timeCall.parity,
                  set |-> epoch # Missing /\ epoch > ValidEpoch]
  /\ IF epoch # Missing /\ epoch > ValidEpoch
     THEN nowSec' = epoch /\ smarthomeOverride' = FALSE
     ELSE UNCHANGED <<nowSec, smarthomeOverride>>
  /\ UNCHANGED <<sensorVars, trackVars, pixelVars, stateVars, paramVars,
                 twinLeds, schedVars, eeprom, lastCall, storeCalls, frame,
                 evalParity, lastMsg, txRest, burst, lastSave, mqtt>>

\* the clock advances to t: seconds pass, or SNTP sets the clock
TimePasses(t) ==
  /\ t > nowSec
  /\ nowSec' = t
  /\ UNCHANGED <<sensorVars, trackVars, pixelVars, stateVars, paramVars,
                 twinLeds, schedVars, eeprom, smarthomeOverride, lastCall,
                 storeCalls, frame, evalParity, lastMsg, txRest, burst,
                 lastSave, mqtt, timeCall>>

\* minutes of the day the clock is observed at: around 08:00, 08:30, 20:00
\* and 20:30, noon and the two ends of the day
ClockMinutes == {0, 479, 480, 509, 510, 720, 1199, 1200, 1230, 1439}
\* clock values: 08:20 and 12:00 of day 0 (clock counting from boot) and the
\* minutes above on 2023-11-14
ClockTimes == {30000, 43200} \cup {1699920000 + m * 60 : m \in ClockMinutes}
\* epochs the browser sends to /setTime
EpochArgs == {Missing, 0, ValidEpoch, 1699920000 + 720 * 60}
\* "state" and "background_mode" values of the MQTT messages
StateArgs == {"absent", "ON", "on", "OFF", "dim"}
ModeArgs == {"absent", "ON"}

\* boot, with a schedule that crosses midnight, lies within a day, or is
\* empty (start = end)
InitSchedule ==
  /\ rxBuf = << >>
  /\ g_sensorDistance = DEFAULT_DISTANCE
  /\ sensorPc = "read"
  /\ lastRead = "none"
  /\ ledPc = "start"
  /\ lastSensorDistance = DEFAULT_DISTANCE
  /\ lastMovementDirection = 0
  /\ lastMovementTime = 0
  /\ showMovingEffect = FALSE
  /\ now = 0
  /\ anchorDistance = DEFAULT_DISTANCE
  /\ leds = AllBlack
  /\ shown = AllBlack
  /\ showCalled = FALSE
  /\ lightOn = TRUE
  /\ backgroundModeActive = FALSE
  /\ InitParams
  /\ twinLeds = << >>
  /\ startHour \in {8, 20}
  /\ startMinute = 0
  /\ endHour \in {8, 20}
  /\ endMinute \in {0, 30}
  /\ eeprom = Settings
  /\ smarthomeOverride = FALSE
  /\ lastCall = "none"
  /\ storeCalls = 0
  /\ frame = [pc |-> "none"]
  /\ InitEnv

NextSchedule ==
  \/ \E t \in ClockTimes : TimePasses(t)
  \/ updateTimeBasedState
  \/ \E state \in StateArgs : \E mode \in ModeArgs :
       mqttCallback([NoKeys EXCEPT !.state = state,
                                  !.background_mode = mode])
  \/ handleSmartHomeOn
  \/ handleSmartHomeOff
  \/ handleSmartHomeClear
  \/ \E epoch \in EpochArgs : handleSetTime(epoch)

SpecSchedule == InitSchedule /\ [][NextSchedule]_vars

\* the control plane of the sketch LightTrack-PRO.ino
NextSketch ==
  \/ \E t \in ClockTimes : TimePasses(t)
  \/ updateTime
  \/ handleSmartHomeOn
  \/ handleSmartHomeOff
  \/ handleSmartHomeClearSketch

SpecSketch == InitSchedule /\ [][NextSketch]_vars

(***************************************************************************)
(* One frame rendered twice: the light-on steps of ledTask (background,    *)
(* beam, trail) applied to two pixel buffers with the same inputs.         *)
(***************************************************************************)
White == <<255, 255, 255>>
\* contents the pixel buffer may hold when a frame starts
PriorBuffers ==
  { AllBlack,
    [i \in Pixels |-> White],
    [i \in Pixels |-> IF i % 2 = 0 THEN <<10, 20, 30>> ELSE Black] }
\* distances a frame may read
FrameDistances == {20, 510, 1000}

InitFrame ==
  /\ rxBuf = << >>
  /\ g_sensorDistance \in FrameDistances
  /\ sensorPc = "read"
  /\ lastRead = "none"
  /\ ledPc = "frame"
  /\ lastSensorDistance \in FrameDistances
  /\ lastMovementDirection \in {-1, 0, 1}
  /\ lastMovementTime = 0
  /\ showMovingEffect = TRUE
  /\ now = 0
  /\ anchorDistance = lastSensorDistance
  /\ leds \in PriorBuffers
  /\ shown = leds
  /\ showCalled = FALSE
  /\ lightOn = TRUE
  /\ backgroundModeActive \in BOOLEAN
  /\ baseColor = <<255, 200, 50>>
  /\ movingIntensity \in {0, 300, 1000}
  /\ stationaryIntensity = 100
  /\ movingLength \in {1, 10}
  /\ centerShift \in {-7, 0, 7}
  /\ additionalLEDs \in {0, 5}
  /\ ledOffDelay = 1
  /\ updateInterval = 20
  /\ twinLeds \in PriorBuffers
  /\ InitPlane

\* lines 61-151 of ledTask on both buffers
RenderTwoFrames ==
  /\ ledPc = "frame"
  /\ ledPc' = "framed"
  /\ leds' = LightOnFrame(leds, g_sensorDistance, lastMovementDirection,
                          showMovingEffect)
  /\ twinLeds' = LightOnFrame(twinLeds, g_sensorDistance,
                              lastMovementDirection, showMovingEffect)
  /\ UNCHANGED <<lastSensorDistance, lastMovementDirection, lastMovementTime,
                 showMovingEffect, now, anchorDistance, shown, showCalled>>
  /\ UNCHANGED <<sensorVars, stateVars, paramVars, planeVars, frame>>

NextFrame == RenderTwoFrames

SpecFrame == InitFrame /\ [][NextFrame]_vars

(***************************************************************************)
(* One light-on iteration of ledTask statement by statement for the        *)
(* settings the store can hold: saved by an earlier run, loaded from a     *)
(* blank EEPROM, at the ends of the setters' ranges, or loaded from an     *)
(* EEPROM that holds values outside the ranges.                            *)
(***************************************************************************)
\* the longest beam and trail the setters accept, shifted down
EdgeSettings ==
  [SavedSettings EXCEPT !.movingLength = NUM_LEDS,
                        !.centerShift = -(NUM_LEDS \div 2),
                        !.additionalLEDs = NUM_LEDS \div 2]
\* a beam of even length shifted up to the end of the strip
ShiftedSettings ==
  [SavedSettings EXCEPT !.movingLength = 40,
                        !.centerShift = NUM_LEDS \div 2,
                        !.additionalLEDs = 12]
\* values no setter accepts, as loadEepromSettings() takes them unchecked
StaleSettings ==
  [SavedSettings EXCEPT !.movingLength = 1000, !.centerShift = 1000,
                        !.additionalLEDs = 400, !.updateInterval = 0,
                        !.ledOffDelay = 0]
LoopSettings ==
  {SavedSettings, BlankSettings, EdgeSettings, ShiftedSettings, StaleSettings}

InitLoop ==
  /\ rxBuf = << >>
  /\ g_sensorDistance \in FrameDistances
  /\ sensorPc = "read"
  /\ lastRead = "none"
  /\ ledPc = "loop"
  /\ lastSensorDistance = g_sensorDistance
  /\ lastMovementDirection \in {-1, 0, 1}
  /\ lastMovementTime = 0
  /\ showMovingEffect \in BOOLEAN
  /\ now = 0
  /\ anchorDistance = g_sensorDistance
  /\ leds = AllBlack
  /\ shown = AllBlack
  /\ showCalled = FALSE
  /\ lightOn = TRUE
  /\ backgroundModeActive \in BOOLEAN
  /\ eeprom \in LoopSettings
  /\ updateInterval = eeprom.updateInterval
  /\ ledOffDelay = eeprom.ledOffDelay
  /\ movingIntensity = eeprom.movingIntensity
  /\ stationaryIntensity = eeprom.stationaryIntensity
  /\ movingLength = eeprom.movingLength
  /\ centerShift = eeprom.centerShift
  /\ additionalLEDs = eeprom.additionalLEDs
  /\ baseColor = eeprom.baseColor
  /\ startHour = eeprom.startHour
  /\ startMinute = eeprom.startMinute
  /\ endHour = eeprom.endHour
  /\ endMinute = eeprom.endMinute
  /\ twinLeds = << >>
  /\ smarthomeOverride = FALSE
  /\ lastCall = "none"
  /\ storeCalls = 0
  /\ InitEnv
  /\ frame = [pc |-> "background", baseBgColor |-> Black, bgIntensity |-> 0,
              movingColor |-> Black, movingIntensity |-> 0,
              movingLength |-> 0, centerShift |-> 0, additionalLeds |-> 0,
              startLed |-> 0, endLed |-> 0, i |-> 0, drawn |-> {},
              path |-> "on", top |-> updateInterval, ticks |-> 0]

NextLoop ==
  \/ FrameBackground
  \/ FrameLocals
  \/ FrameBeamPixel
  \/ FrameBeamEnd
  \/ FrameTrailPixel
  \/ FrameTrailEnd
  \/ FrameShow

SpecLoop == InitLoop /\ [][NextLoop]_vars

(***************************************************************************)
(* The loop of ledTask with its delay: each iteration runs up to its       *)
(* vTaskDelay, then the delay is taken; the control plane sets the frame   *)
(* period and switches the light in between.                               *)
(***************************************************************************)
\* lines 25-154 of one iteration, the delay of the previous one expired
LedIterate(dt) ==
  /\ frame.pc \in {"top", "delay"}
  /\ LedIteration(dt)
  /\ frame' = [frame EXCEPT !.pc = "done",
                            !.path = IF lightOn THEN "on" ELSE "off",
                            !.top = updateInterval]

InitPeriod ==
  /\ rxBuf = << >>
  /\ g_sensorDistance = DEFAULT_DISTANCE
  /\ sensorPc = "read"
  /\ lastRead = "none"
  /\ ledPc = "start"
  /\ lastSensorDistance = DEFAULT_DISTANCE
  /\ lastMovementDirection = 0
  /\ lastMovementTime = 0
  /\ showMovingEffect = FALSE
  /\ now = 0
  /\ anchorDistance = DEFAULT_DISTANCE
  /\ leds = AllBlack
  /\ shown = AllBlack
  /\ showCalled = FALSE
  /\ lightOn = TRUE
  /\ backgroundModeActive = FALSE
  /\ InitParams
  /\ twinLeds = << >>
  /\ startHour = 20
  /\ startMinute = 0
  /\ endHour = 8
  /\ endMinute = 30
  /\ eeprom = Settings
  /\ smarthomeOverride = FALSE
  /\ lastCall = "none"
  /\ storeCalls = 0
  /\ InitEnv
  /\ frame = [pc |-> "top", path |-> "on", top |-> updateInterval,
              ticks |-> 0]

NextPeriod ==
  \/ LedTaskStart
  \/ \E dt \in OwnerSteps : LedIterate(dt)
  \/ FrameDelay
  \/ \E value \in IntArgs : setUpdateInterval(value)
  \/ \E value \in BOOLEAN : SetLightOn(value)

SpecPeriod == InitPeriod /\ [][NextPeriod]_vars

(***************************************************************************)
(* Both loops running: ledTask statement by statement from the top of its  *)
(* loop to its vTaskDelay, sensorTask decoding what the serial line        *)
(* delivers, the control plane switching the light. The flush loop of      *)
(* readSensorData is one step: the line delivers a byte in the time the    *)
(* loop takes to empty the buffer many times over.                         *)
(***************************************************************************)
\* lines 25-57: the tracker and the light-off path up to its delay
FrameTracker(dt) ==
  /\ ledPc = "loop"
  /\ frame.pc \in {"top", "delay"}
  /\ now + dt <= MaxMillis
  /\ LET currentMillis == now + dt
         currentDistance == g_sensorDistance
         diff == currentDistance - lastSensorDistance
         moved == Moved(currentDistance, lastSensorDistance)
         movementTime == IF moved THEN currentMillis ELSE lastMovementTime
     IN  /\ now' = currentMillis
         /\ lastMovementTime' = movementTime
         /\ lastMovementDirection' = IF moved THEN DirectionOf(diff)
                                     ELSE lastMovementDirection
         /\ lastSensorDistance' = currentDistance
         /\ anchorDistance' = IF moved THEN currentDistance ELSE anchorDistance
         /\ showMovingEffect' = Hold(currentMillis, movementTime)
  /\ IF ~lightOn
     THEN /\ IF FirstPixelLit(leds)
             THEN /\ leds' = FillSolid(leds, Black)
                  /\ shown' = leds'
                  /\ showCalled' = TRUE
             ELSE UNCHANGED pixelVars
          /\ frame' = [frame EXCEPT !.pc = "done", !.path = "off",
                                    !.top = updateInterval]
     ELSE /\ UNCHANGED pixelVars
          /\ frame' = [frame EXCEPT !.pc = "background", !.path = "on",
                                    !.top = updateInterval]
  /\ UNCHANGED ledPc
  /\ UNCHANGED <<sensorVars, stateVars, paramVars, twinLeds, planeVars>>

\* the settings the loops run with
LiveSettings == {BlankSettings, ShiftedSettings, StaleSettings}
\* the time from one reading of millis() by ledTask to the next
LiveSteps == {800}
\* the distance of the frames the sensor sends
LiveDistances == {20}

InitLive ==
  /\ rxBuf = << >>
  /\ g_sensorDistance = DEFAULT_DISTANCE
  /\ sensorPc = "read"
  /\ lastRead = "none"
  /\ ledPc = "loop"
  /\ lastSensorDistance = DEFAULT_DISTANCE
  /\ lastMovementDirection = 0
  /\ lastMovementTime = 0
  /\ showMovingEffect = FALSE
  /\ now = 0
  /\ anchorDistance = DEFAULT_DISTANCE
  /\ leds = AllBlack
  /\ shown = AllBlack
  /\ showCalled = FALSE
  /\ lightOn = TRUE
  /\ backgroundModeActive = TRUE
  /\ eeprom \in LiveSettings
  /\ updateInterval = eeprom.updateInterval
  /\ ledOffDelay = eeprom.ledOffDelay
  /\ movingIntensity = eeprom.movingIntensity
  /\ stationaryIntensity = eeprom.stationaryIntensity
  /\ movingLength = eeprom.movingLength
  /\ centerShift = eeprom.centerShift
  /\ additionalLEDs = eeprom.additionalLEDs
  /\ baseColor = eeprom.baseColor
  /\ startHour = eeprom.startHour
  /\ startMinute = eeprom.startMinute
  /\ endHour = eeprom.endHour
  /\ endMinute = eeprom.endMinute
  /\ twinLeds = << >>
  /\ smarthomeOverride = FALSE
  /\ lastCall = "none"
  /\ storeCalls = 0
  /\ InitEnv
  /\ frame = [pc |-> "top", baseBgColor |-> Black, bgIntensity |-> 0,
              movingColor |-> Black, movingIntensity |-> 0,
              movingLength |-> 0, centerShift |-> 0, additionalLeds |-> 0,
              startLed |-> 0, endLed |-> 0, i |-> 0, drawn |-> {},
              path |-> "on", top |-> updateInterval, ticks |-> 0]

\* the statements of ledTask
RenderStep ==
  \/ \E dt \in LiveSteps : FrameTracker(dt)
  \/ FrameBackground
  \/ FrameLocals
  \/ FrameBeamPixel
  \/ FrameBeamEnd
  \/ FrameTrailPixel
  \/ FrameTrailEnd
  \/ FrameShow
  \/ FrameDelay

NextLive ==
  \/ RenderStep
  \/ SensorTask
  \/ SensorWake
  \/ \E d \in LiveDistances : SerialReceiveFrame(d)
  \/ \E value \in BOOLEAN : SetLightOn(value)

\* ledTask is the only application task of core 0, sensorTask has the
\* highest priority of the application tasks of core 1: a task that is
\* ready gets to run
SpecLive ==
  InitLive /\ [][NextLive]_vars /\ WF_vars(RenderStep) /\ WF_vars(SensorTask)

(***************************************************************************)
(* The beam for every length setMovingLength() accepts: one light-on       *)
(* iteration statement by statement without background, the person moving *)
(* away at the near end, the middle or the far end of the range.           *)
(***************************************************************************)
\* constrain(value, 1, NUM_LEDS) of setMovingLength
BeamLengths == 1 .. NUM_LEDS

InitBeam ==
  /\ rxBuf = << >>
  /\ g_sensorDistance \in FrameDistances
  /\ sensorPc = "read"
  /\ lastRead = "none"
  /\ ledPc = "loop"
  /\ lastSensorDistance = g_sensorDistance
  /\ lastMovementDirection = 1
  /\ lastMovementTime = 0
  /\ showMovingEffect = TRUE
  /\ now = 0
  /\ anchorDistance = g_sensorDistance
  /\ leds = AllBlack
  /\ shown = AllBlack
  /\ showCalled = FALSE
  /\ lightOn = TRUE
  /\ backgroundModeActive = FALSE
  /\ movingLength \in BeamLengths
  /\ eeprom = [SavedSettings EXCEPT !.movingLength = movingLength]
  /\ updateInterval = eeprom.updateInterval
  /\ ledOffDelay = eeprom.ledOffDelay
  /\ movingIntensity = eeprom.movingIntensity
  /\ stationaryIntensity = eeprom.stationaryIntensity
  /\ centerShift = eeprom.centerShift
  /\ additionalLEDs = eeprom.additionalLEDs
  /\ baseColor = eeprom.baseColor
  /\ startHour = eeprom.startHour
  /\ startMinute = eeprom.startMinute
  /\ endHour = eeprom.endHour
  /\ endMinute = eeprom.endMinute
  /\ twinLeds = << >>
  /\ smarthomeOverride = FALSE
  /\ lastCall = "none"
  /\ storeCalls = 0
  /\ InitEnv
  /\ frame = [pc |-> "background", baseBgColor |-> Black, bgIntensity |-> 0,
              movingColor |-> Black, movingIntensity |-> 0,
              movingLength |-> 0, centerShift |-> 0, additionalLeds |-> 0,
              startLed |-> 0, endLed |-> 0, i |-> 0, drawn |-> {},
              path |-> "on", top |-> updateInterval, ticks |-> 0]

NextBeam ==
  \/ FrameBackground
  \/ FrameLocals
  \/ FrameBeamPixel
  \/ FrameBeamEnd
  \/ FrameTrailPixel
  \/ FrameTrailEnd
  \/ FrameShow

SpecBeam == InitBeam /\ [][NextBeam]_vars

(***************************************************************************)
(* Frames queued in the receive buffer: the sensor has sent up to three    *)
(* well-formed frames while sensorTask was not running; sensorTask then    *)
(* decodes what is buffered.                                               *)
(***************************************************************************)
\* distances the queued frames carry: below the range, inside it, above it
QueueDistances == {10, 500, 997, 1200}

RECURSIVE Frames(_)
\* the bytes of the frames carrying the distances ds, in order
Frames(ds) == IF ds = << >> THEN << >> ELSE Frame(Head(ds)) \o Frames(Tail(ds))

InitQueue ==
  /\ \E k \in 1 .. 3 : \E ds \in [1 .. k -> QueueDistances] : rxBuf = Frames(ds)
  /\ g_sensorDistance = DEFAULT_DISTANCE
  /\ sensorPc = "read"
  /\ lastRead = "none"
  /\ ledPc = "start"
  /\ lastSensorDistance = DEFAULT_DISTANCE
  /\ lastMovementDirection = 0
  /\ lastMovementTime = 0
  /\ showMovingEffect = FALSE
  /\ now = 0
  /\ anchorDistance = DEFAULT_DISTANCE
  /\ leds = AllBlack
  /\ shown = AllBlack
  /\ showCalled = FALSE
  /\ lightOn = TRUE
  /\ backgroundModeActive = FALSE
  /\ InitParams
  /\ twinLeds = << >>
  /\ InitPlane

NextQueue ==
  \/ SensorTask
  \/ SensorWake

SpecQueue == InitQueue /\ [][NextQueue]_vars

(***************************************************************************)
(* The EEPROM image byte by byte: saveEepromSettings() puts the fields one *)
(* after the other, loadEepromSettings() gets them back. eeprom is the     *)
(* byte array of the EEPROM library here. An int is four bytes, least      *)
(* significant first, in two's complement; a float is four bytes, all 0xFF *)
(* being a NaN, the pattern of the other values one-to-one (the model      *)
(* holds floats in thousandths); a CRGB is the bytes r, g, b.              *)
(***************************************************************************)
EEPROM_SIZE == 64
\* sizeof(int), sizeof(float), sizeof(CRGB)
SizeOfInt == 4
SizeOfFloat == 4
SizeOfCRGB == 3

\* byte k (0 the least significant) of a non-negative v
ByteOf(v, k) ==
  (v \div (IF k = 0 THEN 1 ELSE IF k = 1 THEN 256 ELSE IF k = 2 THEN 65536
           ELSE 16777216)) % 256
\* the bytes of int v in memory
IntBytes(v) ==
  IF v >= 0 THEN [k \in 1 .. SizeOfInt |-> ByteOf(v, k - 1)]
  ELSE [k \in 1 .. SizeOfInt |-> 255 - ByteOf(-(v + 1), k - 1)]
\* the int the four bytes b hold
IntOf(b) ==
  IF b[4] >= 128
  THEN -((255 - b[1]) + (255 - b[2]) * 256 + (255 - b[3]) * 65536
         + (255 - b[4]) * 16777216) - 1
  ELSE b[1] + b[2] * 256 + b[3] * 65536 + b[4] * 16777216
FloatBytes(v) == IF v = NaN THEN <<255, 255, 255, 255>> ELSE IntBytes(v)
FloatOf(b) == IF b = <<255, 255, 255, 255>> THEN NaN ELSE IntOf(b)

\* EEPROM.put(offset, value) and EEPROM.get(offset, value) on the bytes
EepromPut(mem, offset, bytes) ==
  [i \in 1 .. Len(mem) |->
     IF offset < i /\ i <= offset + Len(bytes) THEN bytes[i - offset]
     ELSE mem[i]]
EepromGet(mem, offset, size) == SubSeq(mem, offset + 1, offset + size)

\* the offsets of loadSettings() of the sketch: no ledOffDelay, four bytes
\* skipped for speedMultiplier
LoadOffsetsSketch ==
  LET o1 == 0
      o2 == o1 + SizeOfInt
      o3 == o2 + SizeOfFloat
      o4 == o3 + SizeOfFloat
      o5 == o4 + SizeOfInt
      o6 == o5 + SizeOfInt
      o7 == o6 + SizeOfInt
      o8 == o7 + SizeOfCRGB + SizeOfFloat
      o9 == o8 + SizeOfInt
      o10 == o9 + SizeOfInt
      o11 == o10 + SizeOfInt
  IN  [updateInterval |-> o1, ledOffDelay |-> o1, movingIntensity |-> o2,
       stationaryIntensity |-> o3, movingLength |-> o4, centerShift |-> o5,
       additionalLEDs |-> o6, baseColor |-> o7, startHour |-> o8,
       startMinute |-> o9, endHour |-> o10, endMinute |-> o11]
\* the value of offset at each EEPROM.get of loadEepromSettings()
LoadOffsets ==
  LET o1 == 0
      o2 == o1 + SizeOfInt
      o3 == o2 + SizeOfInt
      o4 == o3 + SizeOfFloat
      o5 == o4 + SizeOfFloat
      o6 == o5 + SizeOfInt
      o7 == o6 + SizeOfInt
      o8 == o7 + SizeOfInt
      o9 == o8 + SizeOfCRGB
      o10 == o9 + SizeOfInt
      o11 == o10 + SizeOfInt
      o12 == o11 + SizeOfInt
  IN  [updateInterval |-> o1, ledOffDelay |-> o2, movingIntensity |-> o3,
       stationaryIntensity |-> o4, movingLength |-> o5, centerShift |-> o6,
       additionalLEDs |-> o7, baseColor |-> o8, startHour |-> o9,
       startMinute |-> o10, endHour |-> o11, endMinute |-> o12]
\* the value of offset at each EEPROM.put of saveEepromSettings()
SaveOffsets ==
  LET o1 == 0
      o2 == o1 + SizeOfInt
      o3 == o2 + SizeOfInt
      o4 == o3 + SizeOfFloat
      o5 == o4 + SizeOfFloat
      o6 == o5 + SizeOfInt
      o7 == o6 + SizeOfInt
      o8 == o7 + SizeOfInt
      o9 == o8 + SizeOfCRGB
      o10 == o9 + SizeOfInt
      o11 == o10 + SizeOfInt
      o12 == o11 + SizeOfInt
  IN  [updateInterval |-> o1, ledOffDelay |-> o2, movingIntensity |-> o3,
       stationaryIntensity |-> o4, movingLength |-> o5, centerShift |-> o6,
       additionalLEDs |-> o7, baseColor |-> o8, startHour |-> o9,
       startMinute |-> o10, endHour |-> o11, endMinute |-> o12]

\* the EEPROM bytes after saveEepromSettings() with the store holding s
SaveImage(mem, s) ==
  LET o == SaveOffsets
      m1 == EepromPut(mem, o.updateInterval, IntBytes(s.updateInterval))
      m2 == EepromPut(m1, o.ledOffDelay, IntBytes(s.ledOffDelay))
      m3 == EepromPut(m2, o.movingIntensity, FloatBytes(s.movingIntensity))
      m4 == EepromPut(m3, o.stationaryIntensity,
                      FloatBytes(s.stationaryIntensity))
      m5 == EepromPut(m4, o.movingLength, IntBytes(s.movingLength))
      m6 == EepromPut(m5, o.centerShift, IntBytes(s.centerShift))
      m7 == EepromPut(m6, o.additionalLEDs, IntBytes(s.additionalLEDs))
      m8 == EepromPut(m7, o.baseColor, s.baseColor)
      m9 == EepromPut(m8, o.startHour, IntBytes(s.startHour))
      m10 == EepromPut(m9, o.startMinute, IntBytes(s.startMinute))
      m11 == EepromPut(m10, o.endHour, IntBytes(s.endHour))
  IN  EepromPut(m11, o.endMinute, IntBytes(s.endMinute))

\* the settings loadEepromSettings() reads from the EEPROM bytes
LoadImage(mem) ==
  LET o == LoadOffsets
  IN  [updateInterval |-> IntOf(EepromGet(mem, o.updateInterval, SizeOfInt)),
       ledOffDelay |-> IntOf(EepromGet(mem, o.ledOffDelay, SizeOfInt)),
       movingIntensity |->
         FloatOf(EepromGet(mem, o.movingIntensity, SizeOfFloat)),
       stationaryIntensity |->
         FloatOf(EepromGet(mem, o.stationaryIntensity, SizeOfFloat)),
       movingLength |-> IntOf(EepromGet(mem, o.movingLength, SizeOfInt)),
       centerShift |-> IntOf(EepromGet(mem, o.centerShift, SizeOfInt)),
       additionalLEDs |-> IntOf(EepromGet(mem, o.additionalLEDs, SizeOfInt)),
       baseColor |-> EepromGet(mem, o.baseColor, SizeOfCRGB),
       startHour |-> IntOf(EepromGet(mem, o.startHour, SizeOfInt)),
       startMinute |-> IntOf(EepromGet(mem, o.startMinute, SizeOfInt)),
       endHour |-> IntOf(EepromGet(mem, o.endHour, SizeOfInt)),
       endMinute |-> IntOf(EepromGet(mem, o.endMinute, SizeOfInt))]

\* what the two store operations leave alone
ImageFrame(name) ==
  /\ storeCalls < MaxCalls
  /\ storeCalls' = storeCalls + 1
  /\ lastCall' = name
  /\ UNCHANGED <<sensorVars, trackVars, pixelVars, stateVars, twinLeds,
                 smarthomeOverride, frame, envVars>>

\* saveEepromSettings(), lines 115-140
saveEepromImage ==
  /\ ImageFrame("saveEepromSettings")
  /\ eeprom' = SaveImage(eeprom, Settings)
  /\ UNCHANGED <<paramVars, schedVars>>

\* loadEepromSettings(), lines 86-112
loadEepromImage ==
  /\ ImageFrame("loadEepromSettings")
  /\ ApplySettings(LoadImage(eeprom))
  /\ UNCHANGED eeprom

\* an EEPROM never written
BlankImage == [i \in 1 .. EEPROM_SIZE |-> 255]

\* the store holds what setters or an earlier load left in it; the EEPROM
\* is blank or holds the image of an earlier run
InitImage ==
  /\ rxBuf = << >>
  /\ g_sensorDistance = DEFAULT_DISTANCE
  /\ sensorPc = "read"
  /\ lastRead = "none"
  /\ ledPc = "start"
  /\ lastSensorDistance = DEFAULT_DISTANCE
  /\ lastMovementDirection = 0
  /\ lastMovementTime = 0
  /\ showMovingEffect = FALSE
  /\ now = 0
  /\ anchorDistance = DEFAULT_DISTANCE
  /\ leds = AllBlack
  /\ shown = AllBlack
  /\ showCalled = FALSE
  /\ lightOn = TRUE
  /\ backgroundModeActive = FALSE
  /\ twinLeds = << >>
  /\ eeprom \in {BlankImage, SaveImage(BlankImage, SavedSettings)}
  /\ updateInterval \in {-1, 100}
  /\ ledOffDelay \in {1, 60}
  /\ movingIntensity \in {NaN, 0, 300}
  /\ stationaryIntensity \in {NaN, 100}
  /\ movingLength \in {7, NUM_LEDS}
  /\ centerShift \in {-(NUM_LEDS \div 2), 0}
  /\ additionalLEDs \in {0, NUM_LEDS \div 2}
  /\ baseColor \in ColorArgs
  /\ startHour = 23
  /\ startMinute = 59
  /\ endHour = 0
  /\ endMinute \in {-1, 30}
  /\ smarthomeOverride = FALSE
  /\ lastCall = "none"
  /\ storeCalls = 0
  /\ frame = [pc |-> "none"]
  /\ InitEnv

NextImage ==
  \/ saveEepromImage
  \/ loadEepromImage

SpecImage == InitImage /\ [][NextImage]_vars

(***************************************************************************)
(* The MQTT connection (home_assistant.cpp): loop() calls                  *)
(* handleHomeAssistant() every 100 ms, the web server saves the broker     *)
(* settings, the broker and the WiFi link come and go. Time is millis() in *)
(* ticks; the two delays are defined in config.h and only compared against *)
(* by the handler, so the model gives them a few ticks each. millis()      *)
(* starts above 0 and does not wrap around within the time explored.       *)
(***************************************************************************)
\* ticks of millis() the model explores
MaxClock == 6

MQTT_RECONNECT_DELAY == 2
HA_DISCOVERY_DELAY == 3

\* a retry that is due as soon as the delay has passed
ReconnectDueAtDelay(m) ==
  m.ms - m.lastAttempt >= MQTT_RECONNECT_DELAY \/ m.lastAttempt = 0
\* now - lastMqttReconnectAttempt > MQTT_RECONNECT_DELAY ||
\* lastMqttReconnectAttempt == 0
ReconnectDue(m) ==
  m.ms - m.lastAttempt > MQTT_RECONNECT_DELAY \/ m.lastAttempt = 0

\* a discovery that is due as soon as the delay has passed
DiscoveryDueAtDelay(m) ==
  m.ms - m.lastDiscovery >= HA_DISCOVERY_DELAY \/ m.lastDiscovery = 0
\* now - lastHADiscoveryTime > HA_DISCOVERY_DELAY || lastHADiscoveryTime == 0
DiscoveryDue(m) ==
  m.ms - m.lastDiscovery > HA_DISCOVERY_DELAY \/ m.lastDiscovery = 0

\* the client m after reconnectMqtt(), called with settings and WiFi there;
\* ok says whether the broker accepts the connection
reconnectMqtt(m, ok) ==
  IF ok
  THEN [m EXCEPT !.connected = TRUE, !.lastDiscovery = 0,
                 !.pub = <<"online">>]
  ELSE m

\* the client after handleHomeAssistant(); alive says whether the client
\* is still connected after mqttClient.loop(). The messages loop() hands
\* over are the calls of mqttCallback().
HandledClient(m, ok, alive) ==
  IF ~m.enabled \/ ~m.configured THEN m
  ELSE IF ~m.wifi
  THEN [m EXCEPT !.connected = FALSE, !.lastAttempt = 0, !.failedAt = -1]
  ELSE IF ~m.connected
  THEN IF ReconnectDue(m)
       THEN LET r == reconnectMqtt([m EXCEPT !.lastAttempt = m.ms], ok)
            IN  IF r.connected
                THEN [r EXCEPT !.lastAttempt = 0, !.attempted = TRUE,
                               !.failedAt = -1, !.fresh = TRUE]
                ELSE [r EXCEPT !.attempted = TRUE, !.failedAt = m.ms]
       ELSE m
  ELSE IF DiscoveryDue(m)
       THEN IF alive
            THEN [m EXCEPT !.lastDiscovery = m.ms, !.publishedAt = m.ms,
                           !.pub = <<"discovery", "state">>]
            ELSE [m EXCEPT !.lastDiscovery = 0, !.connected = FALSE]
       ELSE [m EXCEPT !.connected = alive]

\* what stays as it is while the MQTT client acts
MqttFrame ==
  UNCHANGED <<sensorVars, trackVars, pixelVars, stateVars, paramVars,
              twinLeds, schedVars, eeprom, smarthomeOverride, lastCall,
              storeCalls, frame, nowSec, evalParity, lastMsg, txRest, burst,
              lastSave, timeCall>>

\* handleHomeAssistant(), called by loop()
handleHomeAssistant(ok, alive) ==
  /\ mqtt' = HandledClient([mqtt EXCEPT !.calls = 1 - mqtt.calls,
                                        !.attempted = FALSE,
                                        !.fresh = FALSE, !.pub = << >>],
                           ok, alive)
  /\ MqttFrame

\* handleMqttSave() with the broker settings server: saveMqttSettings() and
\* setMqttServer() when they differ from the saved ones
handleMqttSave(server) ==
  /\ server # mqtt.server
  /\ mqtt' = [mqtt EXCEPT
                !.server = server,
                !.configured = server # "",
                !.enabled = server # "",
                !.lastAttempt = 0,
                !.lastDiscovery = 0,
                !.connected = IF server # "" /\ ~mqtt.wifi
                              THEN mqtt.connected ELSE FALSE,
                !.failedAt = -1,
                !.fresh = FALSE]
  /\ MqttFrame

\* a millisecond passes
MqttTick ==
  /\ mqtt.ms < MaxClock
  /\ mqtt' = [mqtt EXCEPT !.ms = mqtt.ms + 1]
  /\ MqttFrame

\* the broker or the network drops the connection
ConnectionLost ==
  /\ mqtt.connected
  /\ mqtt' = [mqtt EXCEPT !.connected = FALSE]
  /\ MqttFrame

\* the WiFi link goes down
WifiDown ==
  /\ mqtt.wifi
  /\ mqtt' = [mqtt EXCEPT !.wifi = FALSE, !.failedAt = -1]
  /\ MqttFrame

\* the WiFi link comes back; it takes longer than the 100 ms between two
\* calls of handleHomeAssistant(), so a client connected over the old link
\* has been stopped
WifiUp ==
  /\ ~mqtt.wifi
  /\ ~mqtt.connected
  /\ mqtt' = [mqtt EXCEPT !.wifi = TRUE]
  /\ MqttFrame

\* broker settings the web form sends
ServerArgs == {"", "broker", "other"}

\* boot without or with saved broker settings: initHomeAssistant() calls
\* setMqttServer() with the saved ones
InitMqtt ==
  /\ rxBuf = << >>
  /\ g_sensorDistance = DEFAULT_DISTANCE
  /\ sensorPc = "read"
  /\ lastRead = "none"
  /\ ledPc = "start"
  /\ lastSensorDistance = DEFAULT_DISTANCE
  /\ lastMovementDirection = 0
  /\ lastMovementTime = 0
  /\ showMovingEffect = FALSE
  /\ now = 0
  /\ anchorDistance = DEFAULT_DISTANCE
  /\ leds = AllBlack
  /\ shown = AllBlack
  /\ showCalled = FALSE
  /\ lightOn = TRUE
  /\ backgroundModeActive = FALSE
  /\ InitParams
  /\ twinLeds = << >>
  /\ startHour = 20
  /\ startMinute = 0
  /\ endHour = 8
  /\ endMinute = 30
  /\ eeprom = Settings
  /\ smarthomeOverride = FALSE
  /\ lastCall = "none"
  /\ storeCalls = 0
  /\ frame = [pc |-> "none"]
  /\ nowSec = 0
  /\ evalParity = 0
  /\ lastMsg = [parity |-> 0, state |-> "absent"]
  /\ txRest = << >>
  /\ burst = "none"
  /\ lastSave = "none"
  /\ mqtt \in {MqttBoot,
               [MqttBoot EXCEPT !.enabled = TRUE, !.configured = TRUE,
                                !.server = "broker"]}
  /\ timeCall = [parity |-> 0, set |-> FALSE]

NextMqtt ==
  \/ \E ok \in BOOLEAN : \E alive \in BOOLEAN : handleHomeAssistant(ok, alive)
  \/ \E server \in ServerArgs : handleMqttSave(server)
  \/ MqttTick
  \/ ConnectionLost
  \/ WifiDown
  \/ WifiUp

SpecMqtt == InitMqtt /\ [][NextMqtt]_vars

(***************************************************************************)
(* Commands over MQTT: the callback alone, the client connected.           *)
(***************************************************************************)
\* the messages sent: a payload cut short, an empty document, each key on
\* its own with a value the store holds already and with a new one, a
\* colour with a component missing, two keys together
CommandMsgs ==
  { [NoKeys EXCEPT !.valid = FALSE, !.state = "OFF", !.moving_length = <<20>>,
                   !.background_mode = "ON"],
    [NoKeys EXCEPT !.valid = FALSE],
    NoKeys,
    [NoKeys EXCEPT !.state = "ON"],
    [NoKeys EXCEPT !.state = "off"],
    [NoKeys EXCEPT !.color = <<[r |-> 10, g |-> 20, b |-> 30]>>],
    [NoKeys EXCEPT !.color = <<[r |-> 10, g |-> 20]>>],
    [NoKeys EXCEPT !.color = <<[r |-> 10]>>,
                   !.rgb = <<[r |-> 10, g |-> 20, b |-> 30]>>],
    [NoKeys EXCEPT !.rgb = <<[r |-> 10, g |-> 20, b |-> 30]>>],
    [NoKeys EXCEPT !.rgb = <<[g |-> 20, b |-> 30]>>],
    [NoKeys EXCEPT !.brightness = <<255>>],
    [NoKeys EXCEPT !.background_mode = "ON"],
    [NoKeys EXCEPT !.background_mode = "OFF"],
    [NoKeys EXCEPT !.moving_length = <<10>>],
    [NoKeys EXCEPT !.moving_length = <<20>>],
    [NoKeys EXCEPT !.center_shift = <<0>>],
    [NoKeys EXCEPT !.additional_leds = <<5>>],
    [NoKeys EXCEPT !.led_off_delay = <<1>>],
    [NoKeys EXCEPT !.update_interval = <<20>>],
    [NoKeys EXCEPT !.moving_intensity = <<500>>],
    [NoKeys EXCEPT !.stationary_intensity = <<100>>],
    [NoKeys EXCEPT !.state = "ON", !.moving_length = <<20>>] }

\* the client connected to the broker and subscribed, the light on or off
InitCommand ==
  /\ rxBuf = << >>
  /\ g_sensorDistance = DEFAULT_DISTANCE
  /\ sensorPc = "read"
  /\ lastRead = "none"
  /\ ledPc = "start"
  /\ lastSensorDistance = DEFAULT_DISTANCE
  /\ lastMovementDirection = 0
  /\ lastMovementTime = 0
  /\ showMovingEffect = FALSE
  /\ now = 0
  /\ anchorDistance = DEFAULT_DISTANCE
  /\ leds = AllBlack
  /\ shown = AllBlack
  /\ showCalled = FALSE
  /\ lightOn \in BOOLEAN
  /\ backgroundModeActive = FALSE
  /\ InitParams
  /\ twinLeds = << >>
  /\ startHour = 20
  /\ startMinute = 0
  /\ endHour = 8
  /\ endMinute = 30
  /\ eeprom = Settings
  /\ smarthomeOverride \in BOOLEAN
  /\ lastCall = "none"
  /\ storeCalls = 0
  /\ frame = [pc |-> "none"]
  /\ nowSec = 0
  /\ evalParity = 0
  /\ lastMsg = [parity |-> 0, state |-> "absent"]
  /\ txRest = << >>
  /\ burst = "none"
  /\ lastSave = "none"
  /\ mqtt = [MqttBoot EXCEPT !.enabled = TRUE, !.configured = TRUE,
                             !.connected = TRUE]
  /\ timeCall = [parity |-> 0, set |-> FALSE]

NextCommand == \E msg \in CommandMsgs : mqttCallback(msg)

SpecCommand == InitCommand /\ [][NextCommand]_vars

(***************************************************************************)
(* Properties.                                                             *)
(***************************************************************************)
\* a step of ledTask's loop: every iteration reads a later millis()
LedTick == now' # now
\* an invocation of readSensorData by sensorTask
SensorRead == sensorPc = "read" /\ sensorPc' = "delay"
\* the receive buffer starts with two header bytes
TwoHeaders(rx) ==
  Len(rx) >= 2 /\ rx[1] = SENSOR_HEADER /\ rx[2] = SENSOR_HEADER
\* every pixel of the buffer has the colour of pixel 0
Uniform(buf) == \A i \in Pixels : buf[i] = buf[0]

\* C1: a render-loop iteration that observes isLightOn() == false leaves all
\* NUM_LEDS pixels of leds[] black.
C1_LightOffFrameBlack ==
  [][(LedTick /\ ~lightOn) => (\A i \in Pixels : leds'[i] = Black)]_vars

\* C2: after a render-loop iteration that observes lightOn == false the
\* buffer most recently handed to FastLED.show() is entirely black, and such
\* an iteration does not push when the buffer is already entirely black.
C2_LightOffReachesStrip ==
  [][(LedTick /\ ~lightOn) =>
       /\ \A i \in Pixels : shown'[i] = Black
       /\ (\A i \in Pixels : leds[i] = Black) => ~showCalled']_vars

\* C3: when the receive buffer starts with a 7-byte frame (two headers and
\* 5 payload bytes) carrying distance d, the sensorTask iteration leaves
\* g_sensorDistance equal to d if MIN_DISTANCE <= d <= MAX_DISTANCE and
\* unchanged otherwise (d being read where the decoder reads it: payload
\* bytes 1 and 2).
C3_AcceptOrRetain ==
  [][(SensorRead /\ Len(rxBuf) >= 7 /\ TwoHeaders(rxBuf)) =>
       LET d == rxBuf[5] * 256 + rxBuf[4]
       IN  g_sensorDistance' =
             IF MIN_DISTANCE <= d /\ d <= MAX_DISTANCE THEN d
             ELSE g_sensorDistance]_vars

C3_Witness ==
  /\ sensorPc = "delay"
  /\ lastRead = "accepted"
  /\ g_sensorDistance = 232

C5_BadHeaderFlushes ==
  [][(SensorRead /\ ~TwoHeaders(rxBuf)) =>
       (rxBuf' = << >> /\ g_sensorDistance' = g_sensorDistance)]_vars

\* C5 amended: for every buffered byte sequence of at least 7 bytes that
\* does not start with two header bytes, an invocation of readSensorData
\* leaves the published distance unchanged and the receive buffer empty.
C5_BadHeaderFlushesFullBuffer ==
  [][(SensorRead /\ Len(rxBuf) >= 7 /\ ~TwoHeaders(rxBuf)) =>
       (rxBuf' = << >> /\ g_sensorDistance' = g_sensorDistance)]_vars

C5_Witness ==
  /\ sensorPc = "delay"
  /\ lastRead = "sync2"
  /\ rxBuf = << >>
  /\ g_sensorDistance # DEFAULT_DISTANCE

C7_NoiseFilter ==
  [][(LedTick /\ g_sensorDistance - lastSensorDistance < NOISE_THRESHOLD
              /\ lastSensorDistance - g_sensorDistance < NOISE_THRESHOLD) =>
       /\ lastMovementDirection' = lastMovementDirection
       /\ lastMovementTime' = lastMovementTime]_vars

\* the distance has drifted by the threshold or more over quiet ticks
C7_Witness ==
  /\ ledPc = "loop"
  /\ lastMovementDirection = 0
  /\ lastMovementTime = 0
  /\ now > 0
  /\ anchorDistance - lastSensorDistance >= NOISE_THRESHOLD

C9_OffDelayHold ==
  [][LedTick =>
       /\ showMovingEffect' = (now' - lastMovementTime' <= ledOffDelay * 1000)
       /\ (lightOn => (showMovingEffect' = ~Uniform(leds')))]_vars

\* the beam went out after a movement, one tick after it was still held
C9_Witness ==
  /\ ledPc = "loop"
  /\ lastMovementDirection # 0
  /\ ~showMovingEffect
  /\ now - lastMovementTime = ledOffDelay * 1000 + 1
  /\ Uniform(leds)

C11_PositionMapping ==
  /\ ledPc = "framed" =>
     \A d \in MIN_DISTANCE .. MAX_DISTANCE :
       LET den == MAX_DISTANCE - MIN_DISTANCE
           twice == 2 * (d - MIN_DISTANCE) * (NUM_LEDS - 1)
           position == BaseLedPosition(d)
           shifted == position + centerShift
       IN  /\ 2 * den * position - twice > -den
           /\ 2 * den * position - twice <= den
           /\ CenterLED(d) = IF shifted < 0 THEN 0
                             ELSE IF shifted > NUM_LEDS - 1 THEN NUM_LEDS - 1
                             ELSE shifted
  /\ centerShift = 0 => CenterLED(510) = 150
  /\ (centerShift = 0 /\ movingLength = 10) =>
       (StartLed(510) = 145 /\ EndLed(510) = 154)
  /\ (ledPc = "framed" /\ g_sensorDistance = 510 /\ centerShift = 0
        /\ movingLength = 10 /\ movingIntensity > 0) =>
       /\ \A p \in Pixels :
            (p < 145 - additionalLEDs \/ p > 154 + additionalLEDs) =>
              leds[p] = leds[0]
       /\ leds[146] # leds[0]
       /\ leds[153] # leds[0]

C11_Witness ==
  /\ ledPc = "framed"
  /\ g_sensorDistance = 510
  /\ centerShift = 0
  /\ movingLength = 10
  /\ movingIntensity = 1000
  /\ leds[145] = leds[0]
  /\ leds[150] # leds[0]

\* the colour the background step leaves in every pixel
BackgroundLayer ==
  IF backgroundModeActive /\ stationaryIntensity > 0
  THEN <<(baseColor[1] * (1 + (stationaryIntensity * 255) \div 1000)) \div 256,
         (baseColor[2] * (1 + (stationaryIntensity * 255) \div 1000)) \div 256,
         (baseColor[3] * (1 + (stationaryIntensity * 255) \div 1000)) \div 256>>
  ELSE <<0, 0, 0>>

\* C12: in a beam frame with additionalLEDs = k > 0 and direction +1 (-1)
\* the pixels endLed+1 .. endLed+k (startLed-1 .. startLed-k) that lie in
\* [0, N-1] hold the trail colour of their step; every other pixel outside
\* the beam span, on the opposite side and at the far end of the strip
\* included, holds the background colour.
C12_TrailingPixels ==
  (ledPc = "framed" /\ showMovingEffect /\ additionalLEDs > 0
     /\ lastMovementDirection # 0) =>
    LET startLed == StartLed(g_sensorDistance)
        endLed == EndLed(g_sensorDistance)
    IN  \A p \in Pixels :
          LET step == IF lastMovementDirection = 1 THEN p - endLed
                      ELSE startLed - p
          IN  IF step >= 1 /\ step <= additionalLEDs
              THEN leds[p] = Blend(BackgroundLayer,
                                   TrailColor(TrailFactor(step)))
              ELSE (p < startLed \/ p > endLed) => leds[p] = BackgroundLayer

\* a trail cut by the upper end of the strip
C12_Witness ==
  /\ ledPc = "framed"
  /\ showMovingEffect
  /\ lastMovementDirection = 1
  /\ additionalLEDs = 5
  /\ movingLength = 10
  /\ EndLed(g_sensorDistance) = 296
  /\ leds[297] # BackgroundLayer
  /\ leds[299] # BackgroundLayer
  /\ leds[0] = BackgroundLayer
  /\ leds[286] = BackgroundLayer

\* C13: in a beam frame rendered while the direction is still 0, with
\* additionalLEDs = k > 0, the pixels endLed+1 .. endLed+k that lie in
\* [0, N-1] hold the trail colour of their step, as for direction +1.
C13_DefaultDirection ==
  (ledPc = "framed" /\ showMovingEffect /\ additionalLEDs > 0
     /\ lastMovementDirection = 0) =>
    LET endLed == EndLed(g_sensorDistance)
    IN  \A step \in 1 .. additionalLEDs :
          endLed + step <= NUM_LEDS - 1 =>
            leds[endLed + step] = Blend(BackgroundLayer,
                                        TrailColor(TrailFactor(step)))

\* C14: in a beam frame every pixel p of the span [startLed, endLed] holds
\* baseColor scaled by movingIntensity and by the fade factor
\* min(1, min(p - startLed, endLed - p) / fadeWidth), fadeWidth being
\* min(halfLength, 5) (factor 1 where fadeWidth is 0), blended on the
\* background.
C14_EdgeFade ==
  (ledPc = "framed" /\ showMovingEffect /\ movingLength > 0
     /\ movingIntensity > 0) =>
    LET startLed == StartLed(g_sensorDistance)
        endLed == EndLed(g_sensorDistance)
        fadeWidth == IF movingLength \div 2 < 5 THEN movingLength \div 2 ELSE 5
    IN  \A p \in startLed .. endLed :
          LET nearest == IF p - startLed < endLed - p THEN p - startLed
                         ELSE endLed - p
              factor == IF fadeWidth > 0 /\ nearest < fadeWidth
                        THEN <<nearest, fadeWidth>> ELSE <<1, 1>>
          IN  leds[p] = Blend(BackgroundLayer, BeamColor(factor))

\* C15: in a beam frame every channel of every beam or trail pixel holds
\* min(255, background + beam) when the background layer is active and the
\* beam value itself otherwise; the beam value is at most the channel of
\* baseColor, and every channel of the buffer lies in 0 .. 255.
C15_BlendAndChannels ==
  (ledPc = "framed" /\ showMovingEffect /\ movingIntensity > 0) =>
    LET startLed == StartLed(g_sensorDistance)
        endLed == EndLed(g_sensorDistance)
    IN  \A p \in Pixels : \A c \in 1 .. 3 :
          LET step == IF lastMovementDirection = 1 THEN p - endLed
                      ELSE IF lastMovementDirection = -1 THEN startLed - p
                      ELSE 0
              beam == IF p >= startLed /\ p <= endLed
                      THEN BeamColor(BeamFactor(p, startLed, endLed))[c]
                      ELSE TrailColor(TrailFactor(step))[c]
              written == (p >= startLed /\ p <= endLed)
                           \/ (step >= 1 /\ step <= additionalLEDs)
          IN  /\ leds[p][c] >= 0 /\ leds[p][c] <= 255
              /\ written =>
                   /\ beam <= baseColor[c]
                   /\ leds[p][c] =
                        IF backgroundModeActive /\ stationaryIntensity > 0
                        THEN IF BackgroundLayer[c] + beam > 255 THEN 255
                             ELSE BackgroundLayer[c] + beam
                        ELSE beam

\* a beam pixel whose red channel saturates on the background
C15_Witness ==
  /\ ledPc = "framed"
  /\ showMovingEffect
  /\ backgroundModeActive
  /\ movingLength = 1
  /\ movingIntensity = 1000
  /\ leds[CenterLED(g_sensorDistance)][1] = 255
  /\ BackgroundLayer[1] + BeamColor(<<1, 1>>)[1] > 255
  /\ leds[CenterLED(g_sensorDistance)][3] < 255

\* C16: a render tick that observes the light on and the beam inactive
\* leaves every pixel equal to the background colour: baseColor scaled by
\* stationaryIntensity when background mode is active, black otherwise.
C16_BackgroundOnlyFrame ==
  [][(LedTick /\ lightOn /\ ~showMovingEffect') =>
       (\A i \in Pixels : leds'[i] = BackgroundLayer)]_vars

\* a background-only frame pushed after the beam of a movement went out
C16_Witness ==
  /\ ledPc = "loop"
  /\ lightOn
  /\ showCalled
  /\ ~showMovingEffect
  /\ lastMovementDirection # 0
  /\ backgroundModeActive
  /\ BackgroundLayer # <<0, 0, 0>>
  /\ \A i \in Pixels : leds[i] = BackgroundLayer

\* C17: after a call of a store setter, with any argument, the field it
\* sets lies in its range: updateInterval in [5,100], ledOffDelay in [1,60],
\* movingIntensity in [0,1], stationaryIntensity in [0,0.1], movingLength in
\* [1,N], centerShift in [-N/2,N/2], additionalLEDs in [0,N/2], the schedule
\* hours in [0,23] and minutes in [0,59].
C17_SettersClamp ==
  /\ lastCall = "setUpdateInterval" => updateInterval \in 5 .. 100
  /\ lastCall = "setLedOffDelay" => ledOffDelay \in 1 .. 60
  /\ lastCall = "setMovingIntensity" => movingIntensity \in 0 .. 1000
  /\ lastCall = "setStationaryIntensity" => stationaryIntensity \in 0 .. 100
  /\ lastCall = "setMovingLength" => movingLength \in 1 .. NUM_LEDS
  /\ lastCall = "setCenterShift" =>
       centerShift \in -(NUM_LEDS \div 2) .. (NUM_LEDS \div 2)
  /\ lastCall = "setAdditionalLEDs" =>
       additionalLEDs \in 0 .. (NUM_LEDS \div 2)
  /\ lastCall = "setStartHour" => startHour \in 0 .. 23
  /\ lastCall = "setStartMinute" => startMinute \in 0 .. 59
  /\ lastCall = "setEndHour" => endHour \in 0 .. 23
  /\ lastCall = "setEndMinute" => endMinute \in 0 .. 59

\* a step of the render task: the prologue of ledTask or one iteration
LedStep == LedTick \/ (ledPc = "start" /\ ledPc' = "loop")

\* C18: g_sensorDistance changes only in a step of sensorTask; a step of
\* ledTask changes neither g_sensorDistance nor a configuration parameter
\* nor lightOn, the background flag or the override flag; and
\* lastMovementDirection, lastMovementTime and the pixel buffer change only
\* in a step of ledTask.
C18_Ownership ==
  /\ [][g_sensorDistance' # g_sensorDistance => SensorRead]_vars
  /\ [][LedStep =>
          /\ g_sensorDistance' = g_sensorDistance
          /\ paramVars' = paramVars
          /\ schedVars' = schedVars
          /\ lightOn' = lightOn
          /\ backgroundModeActive' = backgroundModeActive
          /\ smarthomeOverride' = smarthomeOverride]_vars
  /\ [][(lastMovementDirection' # lastMovementDirection
           \/ lastMovementTime' # lastMovementTime
           \/ leds' # leds) => LedStep]_vars

\* every owner has written: the decode task the distance, the render task
\* its tracker and the buffer, the control plane its flags and parameters
C18_Witness ==
  /\ g_sensorDistance = 994
  /\ lastMovementDirection = -1
  /\ lastMovementTime > 0
  /\ leds # AllBlack
  /\ smarthomeOverride
  /\ ~lightOn
  /\ backgroundModeActive
  /\ movingLength = 7
  /\ baseColor = <<0, 0, 255>>

\* the buffer a light-on beam frame holds when every pixel is computed from
\* background flag b and base colour color
SnapshotFrame(b, color) ==
  LET layered == b /\ stationaryIntensity > 0
      ground == IF layered
                THEN ScaleRGB(color, (stationaryIntensity * 255) \div 1000)
                ELSE <<0, 0, 0>>
      startLed == StartLed(lastSensorDistance)
      endLed == EndLed(lastSensorDistance)
      On(c) == IF layered THEN AddRGB(ground, c) ELSE c
  IN  [p \in Pixels |->
        LET step == IF lastMovementDirection > 0 THEN p - endLed
                    ELSE startLed - p
        IN  IF p >= startLed /\ p <= endLed
            THEN LET f == BeamFactor(p, startLed, endLed)
                 IN  On(ScaleRGB(color, (movingIntensity * f[1] * 255)
                                          \div (1000 * f[2])))
            ELSE IF step >= 1 /\ step <= additionalLEDs
            THEN LET f == TrailFactor(step)
                 IN  On(ScaleRGB(color, (movingIntensity * f[1] * 8 * 255)
                                          \div (1000 * f[2] * 10)))
            ELSE ground]

\* C19: the buffer a beam frame hands to the strip is the buffer a single
\* value of the background flag and a single value of baseColor give, also
\* when the control plane toggles the flag or sets the colour during the
\* frame.
C19_FrameSnapshot ==
  frame.pc = "done" =>
    \E b \in BOOLEAN : \E color \in ColorArgs : shown = SnapshotFrame(b, color)

\* C20: with fewer than 7 bytes buffered readSensorData returns the last
\* published distance and consumes nothing: the sensorTask iteration leaves
\* the receive buffer and g_sensorDistance as they were.
C20_ShortBufferNoOp ==
  /\ [](Len(rxBuf) < 7 =>
          /\ readSensorData(rxBuf, g_sensorDistance).ret = g_sensorDistance
          /\ readSensorData(rxBuf, g_sensorDistance).rx = rxBuf)
  /\ [][(SensorRead /\ Len(rxBuf) < 7) =>
          /\ rxBuf' = rxBuf
          /\ g_sensorDistance' = g_sensorDistance
          /\ lastRead' = "short"]_vars

\* a read of a partly received frame, after a frame had been accepted
C20_Witness ==
  /\ sensorPc = "delay"
  /\ lastRead = "short"
  /\ Len(rxBuf) = 6
  /\ TwoHeaders(rxBuf)
  /\ g_sensorDistance = 232

\* C25: while the override flag is set, a schedule evaluation leaves lightOn
\* as it is, whether the clock is synchronised or not, and a step that
\* changes lightOn is a command that keeps the flag set, never an evaluation.
C25_OverrideBeatsSchedule ==
  /\ [][(smarthomeOverride /\ evalParity' # evalParity) =>
          lightOn' = lightOn]_vars
  /\ [][(smarthomeOverride /\ lightOn' # lightOn) =>
          (evalParity' = evalParity /\ smarthomeOverride')]_vars

\* C26: a schedule evaluation that finds the clock synchronised and no
\* override leaves lightOn equal to the window test on the minute of the day:
\* start <= now < end when start <= end, now >= start or now < end when
\* start > end; start = end leaves the light off.
C26_ScheduleWindow ==
  [][(evalParity' # evalParity /\ nowSec >= 1000000000
        /\ ~smarthomeOverride) =>
       LET minute == (nowSec \div 60) % 1440
           start == startHour * 60 + startMinute
           end == endHour * 60 + endMinute
       IN  /\ start <= end => (lightOn' = (start <= minute /\ minute < end))
           /\ start > end => (lightOn' = (minute >= start \/ minute < end))
           /\ start = end => ~lightOn']_vars

\* the schedule switched the light off at 08:30, the end of the window
C26_Witness ==
  /\ evalParity = 1
  /\ nowSec = 1699920000 + 510 * 60
  /\ startHour = 20 /\ endHour = 8 /\ endMinute = 30
  /\ ~smarthomeOverride
  /\ lastMsg.parity = 0
  /\ ~lightOn

\* C27: after mqttCallback has processed a message with a "state" key,
\* lightOn is the commanded state and the override flag is set, also when
\* the light already had the commanded state; a schedule evaluation that
\* finds the flag set does not change lightOn.
C27_MqttStateOverrides ==
  /\ [][(lastMsg'.parity # lastMsg.parity /\ lastMsg'.state # "absent") =>
          /\ lightOn' = (lastMsg'.state \in {"ON", "on"})
          /\ smarthomeOverride']_vars
  /\ [][(evalParity' # evalParity /\ smarthomeOverride
           /\ lastMsg.state # "absent") => lightOn' = lightOn]_vars

\* C28: a schedule evaluation that finds the override cleared and the light
\* still off leaves lightOn equal to the window test on the minute of the
\* day, whether the clock is synchronised or not.
C28_ResumeSchedule ==
  [][(evalParity' # evalParity /\ ~smarthomeOverride /\ ~lightOn) =>
       LET minute == (nowSec \div 60) % 1440
           start == startHour * 60 + startMinute
           end == endHour * 60 + endMinute
       IN  lightOn' = IF start <= end THEN start <= minute /\ minute < end
                      ELSE minute >= start \/ minute < end]_vars

\* C22: once a burst of corrupted bytes is over and the sensor sends only
\* well-formed in-range frames, the published distance eventually equals the
\* distance of a frame sent after the burst.
C22_SelfHealing ==
  (burst = "over") ~> (g_sensorDistance \in HealedDistances)

C24_FramePeriod ==
  [][(frame.pc = "done" /\ frame'.pc = "delay") =>
       frame'.ticks = updateInterval]_vars

\* a later iteration on the light-off path: the period was 20 when the
\* iteration started and 7 when its delay started
C24_Witness ==
  /\ frame.pc = "delay"
  /\ frame.path = "off"
  /\ frame.top = 20
  /\ frame.ticks = 7
  /\ now > 501

C31_BeamVisible ==
  (/\ frame.pc = "trail"
   /\ frame.i = 1
   /\ lightOn
   /\ FrameDrawsBeam
   /\ frame.movingColor # Black
   /\ frame.movingLength \in 1 .. NUM_LEDS)
  => /\ \E p \in frame.startLed .. frame.endLed :
          BeamFactor(p, frame.startLed, frame.endLed)[1] > 0
     /\ \E p \in frame.drawn : leds[p] # Black

\* C32: when the strip ends do not cut the span (centre - half >= 0 and
\* centre + half <= N-1), the inclusive span [startLed, endLed] of the frame
\* holds exactly movingLength pixels, for even and for odd lengths.
C32_BeamLength ==
  (/\ frame.pc \in {"beam", "trail"}
   /\ frame.movingLength >= 1)
  => LET centre == Constrain(BaseLedPosition(lastSensorDistance)
                               + frame.centerShift, 0, NUM_LEDS - 1)
         half == frame.movingLength \div 2
     IN  (centre - half >= 0 /\ centre + half <= NUM_LEDS - 1)
         => /\ frame.endLed - frame.startLed + 1 = frame.movingLength
            /\ (frame.pc = "trail" /\ frame.i = 1
                => Cardinality(frame.drawn) = frame.movingLength)

\* the beam loop has drawn an even span of 10 pixels in the middle of the
\* strip
C32_Witness ==
  /\ frame.pc = "trail"
  /\ frame.i = 1
  /\ frame.movingLength = 10
  /\ frame.startLed = 145
  /\ frame.endLed = 154
  /\ frame.drawn = 145 .. 154

RECURSIVE LastInRange(_, _)
\* the distance published once every frame of the aligned buffer rx has been
\* taken in arrival order, last being the distance published so far
LastInRange(rx, last) ==
  IF Len(rx) < 7 THEN last
  ELSE LET d == rx[5] * 256 + rx[4]
       IN  LastInRange(SubSeq(rx, 8, Len(rx)),
                       IF d >= MIN_DISTANCE /\ d <= MAX_DISTANCE THEN d
                       ELSE last)

\* C33: an invocation that finds two header bytes and a full payload
\* consumes exactly 7 bytes, the distance accepted or rejected, and
\* publishes the distance of that frame when it is in range; so k buffered
\* aligned frames are processed one by one in arrival order and the
\* published distance ends at the last in-range one.
C33_InOrderDecoding ==
  [][(/\ sensorPc = "read"
      /\ sensorPc' = "delay"
      /\ Len(rxBuf) >= 7
      /\ rxBuf[1] = SENSOR_HEADER
      /\ rxBuf[2] = SENSOR_HEADER)
     => /\ rxBuf' = SubSeq(rxBuf, 8, Len(rxBuf))
        /\ LET d == rxBuf[5] * 256 + rxBuf[4]
           IN  g_sensorDistance' =
                 IF d >= MIN_DISTANCE /\ d <= MAX_DISTANCE THEN d
                 ELSE g_sensorDistance
        /\ LastInRange(rxBuf', g_sensorDistance')
             = LastInRange(rxBuf, g_sensorDistance)]_vars

\* three queued frames are decoded: 500 was published, 997 replaced it, the
\* last frame (out of range) was consumed and left 997 published
C33_Witness ==
  /\ rxBuf = << >>
  /\ g_sensorDistance = 997
  /\ lastRead = "rejected"
  /\ sensorPc = "delay"

\* C34: loaded settings are valid: after the boot-time load, whatever the
\* EEPROM holds, and before a setter has run or the render task has read a
\* parameter, every render and schedule parameter lies in its valid range.
C34_LoadedSettingsValid ==
  (ledPc = "start" /\ lastCall = "none" /\ storeCalls = 0)
  => /\ 5 <= updateInterval /\ updateInterval <= 100
     /\ 1 <= ledOffDelay /\ ledOffDelay <= 60
     /\ movingIntensity # NaN /\ 0 <= movingIntensity
     /\ movingIntensity <= 1000
     /\ stationaryIntensity # NaN /\ 0 <= stationaryIntensity
     /\ stationaryIntensity <= 100
     /\ 1 <= movingLength /\ movingLength <= NUM_LEDS
     /\ -(NUM_LEDS \div 2) <= centerShift /\ centerShift <= NUM_LEDS \div 2
     /\ 0 <= additionalLEDs /\ additionalLEDs <= NUM_LEDS \div 2
     /\ 0 <= startHour /\ startHour <= 23
     /\ 0 <= startMinute /\ startMinute <= 59
     /\ 0 <= endHour /\ endHour <= 23
     /\ 0 <= endMinute /\ endMinute <= 59

\* C35: settings round trip: loadEepromSettings() called after
\* saveEepromSettings() restores every persisted field (updateInterval,
\* ledOffDelay, both intensities, movingLength, centerShift, additionalLEDs,
\* baseColor, the four schedule fields) to the value it had at save time:
\* the fields are written and read in the same order at the same offsets.
C35_SettingsRoundTrip ==
  [][(lastCall = "saveEepromSettings" /\ lastCall' = "loadEepromSettings")
     => /\ updateInterval' = updateInterval
        /\ ledOffDelay' = ledOffDelay
        /\ movingIntensity' = movingIntensity
        /\ stationaryIntensity' = stationaryIntensity
        /\ movingLength' = movingLength
        /\ centerShift' = centerShift
        /\ additionalLEDs' = additionalLEDs
        /\ baseColor' = baseColor
        /\ startHour' = startHour
        /\ startMinute' = startMinute
        /\ endHour' = endHour
        /\ endMinute' = endMinute
        /\ LoadOffsets = SaveOffsets]_vars

\* a save over the image of an earlier run, then a load: negative, zero,
\* largest and NaN values are back in the store
C35_Witness ==
  /\ lastCall = "loadEepromSettings"
  /\ storeCalls = 2
  /\ eeprom # SaveImage(BlankImage, SavedSettings)
  /\ eeprom # BlankImage
  /\ updateInterval = -1
  /\ movingIntensity = 300
  /\ stationaryIntensity = NaN
  /\ movingLength = NUM_LEDS
  /\ centerShift = -(NUM_LEDS \div 2)
  /\ baseColor = <<0, 0, 255>>
  /\ endMinute = 30

\* C36: persistence on change only: a store setter runs the EEPROM save
\* only when the stored value of its field changes; a call that leaves the
\* stored value as it was (the same value, or an argument out of range that
\* clamps to the current value) saves nothing and changes no other state.
C36_PersistOnChangeOnly ==
  [][(storeCalls' = storeCalls + 1 /\ Settings' = Settings)
     => /\ lastSave' = "skipped"
        /\ eeprom' = eeprom
        /\ UNCHANGED <<sensorVars, trackVars, pixelVars, stateVars,
                       twinLeds, smarthomeOverride>>]_vars

\* C40: time sync and override: a /setTime request with a valid epoch
\* clears the smart-home override and leaves lightOn to the schedule, whose
\* next evaluation sets it; a /setTime request with a missing or invalid
\* epoch leaves the override and lightOn as they are.
C40_TimeSyncAndOverride ==
  /\ [][(timeCall'.parity # timeCall.parity /\ timeCall'.set)
        => /\ smarthomeOverride' = FALSE
           /\ lightOn' = lightOn
           /\ nowSec' > 1000000000]_vars
  /\ [][(timeCall'.parity # timeCall.parity /\ ~timeCall'.set)
        => /\ smarthomeOverride' = smarthomeOverride
           /\ lightOn' = lightOn
           /\ nowSec' = nowSec]_vars
  /\ [][(evalParity' # evalParity /\ timeCall.set /\ ~smarthomeOverride
         /\ nowSec > 1000000000)
        => LET cur == (nowSec \div 60) % 1440
               start == startHour * 60 + startMinute
               end == endHour * 60 + endMinute
           IN  lightOn' = IF start <= end
                          THEN start <= cur /\ cur < end
                          ELSE cur >= start \/ cur < end]_vars

\* the light was switched off over MQTT, /setTime with a valid epoch
\* cleared the override and one schedule evaluation switched the light on
C40_Witness ==
  /\ timeCall = [parity |-> 1, set |-> TRUE]
  /\ evalParity = 1
  /\ lastMsg = [parity |-> 1, state |-> "OFF"]
  /\ ~smarthomeOverride
  /\ lightOn
  /\ nowSec = 1699920000 + 720 * 60

\* C39: malformed MQTT command: when the payload of a message is not a JSON
\* document, mqttCallback leaves lightOn, the override flag and every
\* configuration parameter unchanged and publishes no state; a state update
\* is published exactly when at least one recognised key was applied: a
\* "state" that switches the light, a colour with all three components, or
\* any other recognised key.
C39_MalformedCommand ==
  /\ [][(lastMsg'.parity # lastMsg.parity /\ ~mqtt'.parsed)
        => /\ lightOn' = lightOn
           /\ smarthomeOverride' = smarthomeOverride
           /\ backgroundModeActive' = backgroundModeActive
           /\ Settings' = Settings
           /\ eeprom' = eeprom
           /\ mqtt'.pub = << >>]_vars
  /\ [][\A msg \in CommandMsgs :
          (mqtt.connected /\ mqttCallback(msg))
          => LET full(o) == o # << >> /\ {"r", "g", "b"} \subseteq DOMAIN o[1]
                 applied ==
                   /\ msg.valid
                   /\ \/ /\ msg.state # "absent"
                         /\ lightOn # (msg.state \in {"ON", "on"})
                      \/ full(msg.color)
                      \/ msg.color = << >> /\ full(msg.rgb)
                      \/ msg.background_mode # "absent"
                      \/ msg.brightness # << >>
                      \/ msg.moving_length # << >>
                      \/ msg.center_shift # << >>
                      \/ msg.additional_leds # << >>
                      \/ msg.led_off_delay # << >>
                      \/ msg.update_interval # << >>
                      \/ msg.moving_intensity # << >>
                      \/ msg.stationary_intensity # << >>
             IN  (mqtt'.pub = <<"state">>) <=> applied]_vars

\* a "moving_length" was applied and published, and then a payload that is
\* not a JSON document arrived and changed and published nothing
C39_Witness ==
  /\ lastMsg = [parity |-> 0, state |-> "absent"]
  /\ ~mqtt.parsed
  /\ mqtt.pub = << >>
  /\ movingLength = 20
  /\ eeprom.movingLength = 20
  /\ lightOn
  /\ ~backgroundModeActive

\* C37: MQTT reconnect back-off: while MQTT is enabled, WiFi stays connected
\* and the settings are not changed, after a failed connection attempt
\* handleHomeAssistant makes no further attempt until more than
\* MQTT_RECONNECT_DELAY ms have elapsed and makes one on the first call after
\* that; while MQTT is disabled or unconfigured it makes no attempt at all.
C37_ReconnectBackoff ==
  /\ [][(mqtt'.calls # mqtt.calls /\ mqtt.enabled /\ mqtt.configured
         /\ mqtt.wifi /\ mqtt.failedAt >= 0)
        => /\ ~mqtt.connected
           /\ mqtt'.attempted
                <=> (mqtt.ms - mqtt.failedAt > MQTT_RECONNECT_DELAY)]_vars
  /\ [][(mqtt'.calls # mqtt.calls /\ (~mqtt.enabled \/ ~mqtt.configured))
        => /\ ~mqtt'.attempted
           /\ ~mqtt'.connected
           /\ mqtt'.pub = << >>]_vars

\* an attempt failed at tick 1 and the call made MQTT_RECONNECT_DELAY ticks
\* later did not try again
C37_Witness ==
  /\ mqtt.enabled /\ mqtt.configured /\ mqtt.wifi
  /\ mqtt.failedAt = 1
  /\ mqtt.ms = 1 + MQTT_RECONNECT_DELAY
  /\ mqtt.calls = 0
  /\ ~mqtt.attempted
  /\ ~mqtt.connected

\* C38: discovery after connect: after every successful MQTT (re)connection
\* the next handleHomeAssistant call made while the client is still
\* connected publishes the Home Assistant discovery messages followed by the
\* current state; afterwards discovery is published again only when more
\* than HA_DISCOVERY_DELAY ms have passed since the previous publication.
C38_DiscoveryAfterConnect ==
  /\ [][(mqtt'.calls # mqtt.calls /\ mqtt.fresh /\ mqtt.connected
         /\ mqtt'.connected)
        => /\ mqtt'.pub = <<"discovery", "state">>
           /\ mqtt'.publishedAt = mqtt.ms]_vars
  /\ [][(mqtt'.calls # mqtt.calls /\ ~mqtt.fresh
         /\ mqtt'.pub = <<"discovery", "state">>)
        => /\ mqtt.publishedAt >= 0
           /\ mqtt.ms - mqtt.publishedAt > HA_DISCOVERY_DELAY]_vars

\* the client is connected and a call has just published the discovery and
\* the state, HA_DISCOVERY_DELAY + 1 ticks after tick 1, the earliest tick
\* of a publication
C38_Witness ==
  /\ mqtt.connected
  /\ mqtt.pub = <<"discovery", "state">>
  /\ mqtt.publishedAt = mqtt.ms
  /\ mqtt.ms = 1 + HA_DISCOVERY_DELAY + 1
  /\ mqtt.calls = 1
  /\ mqtt.lastAttempt = 0

====
